---------------------------- MODULE Spec2Model ----------------------------
(***************************************************************************)
(* Disclosure pipeline and price updater of araiy555/googlecolab:          *)
(*   - KabutanDailyCollector (collect_kabutan_disclosures.py): walks the   *)
(*     pages of a month and overwrites that month's PeriodStore;           *)
(*   - StockBasedDataOrganizer (organize_stock_disclosures.py): regroups   *)
(*     the PeriodStores by stock code into EntityStores (full mode:        *)
(*     overwrite, incremental mode: merge) and writes the Index;           *)
(*   - JPXDailyUpdater (collect_jpx_stocks_daily.py): adds the price rows  *)
(*     of the last days to the CSV of a stock.                             *)
(*                                                                         *)
(* Nine specifications share the variables:                                *)
(*   Spec        collection runs (fetch result as input) and Aggregator    *)
(*               runs, one step per stock code;                            *)
(*   SpecResume  incremental Aggregator runs that may be interrupted and   *)
(*               are run again over the same PeriodStores;                 *)
(*   SpecMerge   merge_disclosures as a pure function of bounded inputs;   *)
(*   SpecWalk    fetch_month_disclosures page by page, attempt by attempt, *)
(*               followed by save_month_to_s3;                             *)
(*   SpecRetry   the same walk against a server that fails on many pages;  *)
(*   SpecCeiling the same walk from page 998 on;                           *)
(*   SpecTerminate  the walk from page 998 on with weak fairness, against  *)
(*               a server that can fail on every page;                     *)
(*   SpecParse   parse_datetime_str, parse_disclosure_row,                 *)
(*               extract_disclosures_from_page, categorize_disclosure,     *)
(*               calculate_importance_score and the grouping of one        *)
(*               monthly document on bounded arguments;                    *)
(*   SpecPrices  JPXDailyUpdater.merge_and_save on bounded arguments.      *)
(***************************************************************************)
EXTENDS Integers, Sequences, FiniteSets, TLC

VARIABLES
    \* ---- S3 documents ----
    periodStore,        \* month -> monthly document or NoDoc
    entityStore,        \* stock code -> per-stock document or NoDoc
    index,              \* index.json or NoDoc
    \* ---- StockBasedDataOrganizer run ----
    mode,               \* self.mode of the running organizer, "idle" between runs
    stock_data,         \* result of load_all_monthly_data: code -> records
    stock_codes,        \* codes process_stocks_in_batches still has to visit
    stats,              \* self.stats of the organizer
    last,               \* the step just taken (history)
    runClean,           \* no read or write of the current run has failed and no
                        \* PeriodStore has changed since it loaded them (history)
    prevClean,          \* the last completed run was incremental and clean, and no
                        \* PeriodStore has changed since (history)
    run_start,          \* SpecResume: the EntityStores before the first run (history)
    \* ---- merge_disclosures called on its own ----
    m_pc, m_existing, m_new, m_merged, m_twice,
    \* ---- KabutanDailyCollector run ----
    pc,                 \* position in run_daily_collection / fetch_month_disclosures
    target_months,      \* months run_daily_collection still has to process
    page, consecutive_empty, retry, all_disclosures, request_count,
    requested,          \* page numbers requested in the current walk (history)
    yielded,            \* every record the pages of the current walk yielded (history)
    last_page,          \* last-page marker the server shows on page 1, 0 = none
    failBudget,         \* failed attempts the server may still produce
    server,             \* the pages on which the server has records / may fail
    walk_log,           \* outcome of every finished page of the current walk (history)
    page_log,           \* outcome of every attempt for the page last tried (history)
    min_gap,            \* shortest sleep before an HTTP request of the current walk, in
                        \* tenths of a second (history)
    \* ---- the parsing functions called on their own ----
    p_op, p_arg, p_ret

aggVars   == <<entityStore, index, mode, stock_data, stock_codes, stats, runClean, prevClean,
               run_start>>
mergeVars == <<m_pc, m_existing, m_new, m_merged, m_twice>>
walkVars  == <<pc, target_months, page, consecutive_empty, retry, all_disclosures,
               request_count, requested, yielded, last_page, failBudget, server,
               walk_log, page_log, min_gap>>
parseVars == <<p_op, p_arg, p_ret>>
vars      == <<periodStore, last, aggVars, mergeVars, walkVars, parseVars>>

-----------------------------------------------------------------------------
(* Bounds of the model *)

MaxLen == 3             \* longest argument list of merge_disclosures
MaxDataPages == 2       \* the server has records, and fails, on pages 1..MaxDataPages only
MaxLastPage == 21       \* largest last-page marker the server shows
MaxFailedAttempts == 3  \* failed HTTP attempts per collection run
MaxFailPages == 5       \* pages on which the failing server of SpecRetry fails
MaxRetryFailures == 15  \* failed HTTP attempts of the failing server of SpecRetry
MaxWalkFailures == 66   \* failed HTTP attempts of the failing server of SpecTerminate
MaxTitleWords == 2      \* longest title given to categorize_disclosure
MaxRows == 3            \* rows of a table given to extract_disclosures_from_page
MaxScoreWords == 3      \* words after the padding of a title given to calculate_importance_score
MaxFileRecords == 2     \* records of a monthly document grouped on its own
MaxDay == 4             \* trading days a price CSV can have rows for

-----------------------------------------------------------------------------
(* Text.  A date string is a sequence of one-character strings, a title a   *)
(* sequence of words; Str is the text they spell.                           *)

\* A key without a document (NoSuchKey); also the None of a failed load
NoDoc == [NoSuchKey |-> TRUE]
\* The no-write branch of process_stocks_in_batches
Skip == [skip |-> TRUE]

DigitChars == <<"0", "1", "2", "3", "4", "5", "6", "7", "8", "9">>
Digits == {DigitChars[i] : i \in 1..10}

RECURSIVE Str(_)
Str(cs) == IF cs = <<>> THEN "" ELSE Head(cs) \o Str(Tail(cs))

\* f"{n:02d}" and f"{n}" for a four-digit year
Pad2(n) == <<DigitChars[((n \div 10) % 10) + 1], DigitChars[(n % 10) + 1]>>
Pad4(n) == <<DigitChars[((n \div 1000) % 10) + 1], DigitChars[((n \div 100) % 10) + 1]>> \o Pad2(n)

\* f"{year}-{month:02d}-{day:02d}"
IsoDate(y, m, d) == Pad4(y) \o <<"-">> \o Pad2(m) \o <<"-">> \o Pad2(d)

\* dict.get(key, default)
Get(d, f, default) == IF f \in DOMAIN d THEN d[f] ELSE default

AllDigits(cs) == \A i \in 1..Len(cs) : cs[i] \in Digits

\* re.match(r'^\d{4}-\d{2}-\d{2}$', date_str)
IsIsoDate(cs) ==
    /\ Len(cs) = 10
    /\ cs[5] = "-" /\ cs[8] = "-"
    /\ AllDigits(SubSeq(cs, 1, 4)) /\ AllDigits(SubSeq(cs, 6, 7)) /\ AllDigits(SubSeq(cs, 9, 10))

\* int(text) of a digit string
DigitVal(c) == CHOOSE i \in 0..9 : DigitChars[i + 1] = c
RECURSIVE IntOf(_)
IntOf(cs) == IF cs = <<>> THEN 0 ELSE IntOf(SubSeq(cs, 1, Len(cs) - 1)) * 10 + DigitVal(cs[Len(cs)])

\* date_str.split('/') : the groups of the slash patterns of normalize_date
RECURSIVE SplitSlash(_)
SplitSlash(cs) ==
    IF \A i \in 1..Len(cs) : cs[i] # "/"
    THEN <<cs>>
    ELSE LET p == CHOOSE i \in 1..Len(cs) : cs[i] = "/" /\ \A j \in 1..(i - 1) : cs[j] # "/"
         IN  <<SubSeq(cs, 1, p - 1)>> \o SplitSlash(SubSeq(cs, p + 1, Len(cs)))

\* StockBasedDataOrganizer.normalize_date
normalize_date(date_str) ==
    LET parts == SplitSlash(date_str)
        isDigits(p, lo, hi) == Len(p) >= lo /\ Len(p) <= hi /\ AllDigits(p)
    IN  IF date_str = <<>> THEN <<>>
        ELSE IF IsIsoDate(date_str) THEN date_str
        ELSE IF Len(parts) = 3 /\ isDigits(parts[1], 4, 4) /\ isDigits(parts[2], 1, 2)
                /\ isDigits(parts[3], 1, 2)
        THEN parts[1] \o <<"-">> \o Pad2(IntOf(parts[2])) \o <<"-">> \o Pad2(IntOf(parts[3]))
        ELSE IF Len(parts) = 3 /\ isDigits(parts[1], 1, 2) /\ isDigits(parts[2], 1, 2)
                /\ isDigits(parts[3], 4, 4)
        THEN parts[3] \o <<"-">> \o Pad2(IntOf(parts[1])) \o <<"-">> \o Pad2(IntOf(parts[2]))
        ELSE IF Len(date_str) = 8 /\ AllDigits(date_str)
        THEN SubSeq(date_str, 1, 4) \o <<"-">> \o SubSeq(date_str, 5, 6) \o <<"-">>
             \o SubSeq(date_str, 7, 8)
        ELSE date_str

-----------------------------------------------------------------------------
(* Records *)

\* The words of a title; a keyword occurs in a title when it is one of its
\* words.  The romanised words stand for the Japanese keywords of the source.
Words(title) == {title[i] : i \in 1..Len(title)}

\* categorize_disclosure with its first two rules exchanged
categorize_disclosure_dividend_first(title) ==
    LET any(kws) == Words(title) \cap kws # {}
    IN  IF any({"haitou", "kabunushiyutai", "jikokabushiki"}) THEN "haitou-kabunushikangen"
        ELSE IF any({"kessan", "gyoseki", "shihanki", "uriage", "rieki"}) THEN "kessan-gyoseki"
        ELSE IF any({"jinji", "yakuin", "daihyotorishimariyaku"}) THEN "jinji-soshiki"
        ELSE IF any({"baishu", "M&A", "shihonteikei", "gyomuteikei"}) THEN "M&A-teikei"
        ELSE IF any({"shinseihin", "shinservice", "kaihatsu", "tokkyo"}) THEN "jigyo-seihin"
        ELSE "sonota"

\* KabutanDailyCollector.categorize_disclosure: the first rule with a keyword
\* in the title decides.
categorize_disclosure(title) ==
    LET any(kws) == Words(title) \cap kws # {}
    IN  IF any({"kessan", "gyoseki", "shihanki", "uriage", "rieki"}) THEN "kessan-gyoseki"
        ELSE IF any({"haitou", "kabunushiyutai", "jikokabushiki"}) THEN "haitou-kabunushikangen"
        ELSE IF any({"jinji", "yakuin", "daihyotorishimariyaku"}) THEN "jinji-soshiki"
        ELSE IF any({"baishu", "M&A", "shihonteikei", "gyomuteikei"}) THEN "M&A-teikei"
        ELSE IF any({"shinseihin", "shinservice", "kaihatsu", "tokkyo"}) THEN "jigyo-seihin"
        ELSE "sonota"

\* The dict parse_disclosure_row returns for a row (code, company, title, date)
RawRecord(code, company, title, date) ==
    [stock_code |-> code, company_name |-> company, title |-> title, date |-> date,
     category |-> categorize_disclosure(title)]

\* StockBasedDataOrganizer.create_disclosure_key
create_disclosure_key(disclosure) ==
    LET stock_code == Get(disclosure, "stock_code", "")
        date == IF Get(disclosure, "date_normalized", <<>>) # <<>>
                THEN disclosure.date_normalized
                ELSE Get(disclosure, "date", <<>>)
        title == Get(disclosure, "title", <<>>)
    IN  stock_code \o "_" \o Str(date) \o "_" \o Str(title)

KeySet(disclosures) == {create_disclosure_key(disclosures[i]) : i \in 1..Len(disclosures)}

\* Lists of at most n elements of S
SeqsUpTo(S, n) == UNION {[1..k -> S] : k \in 0..n}

\* len(word) of the Japanese text a word stands for: the high-impact
\* keywords, the units of an amount, the words of the titles and items of the
\* model and a phrase of 46 other characters; every other element of a text
\* is one character
Chars(word) ==
    CASE word = "gyosekiyosoushusei" -> 6
      [] word \in {"kurojitenkan", "oshirase"} -> 4
      [] word \in {"akaji", "zouhai", "genpai", "muhai", "baishu", "gappei", "okuen",
                   "kessan", "tanshin", "haitou", "yosou", "tsugihe", "maehe"} -> 2
      [] word \in {"hyakumanen", "senmanen", "code", "kaishamei"} -> 3
      [] word = "kaijinichiji" -> 4
      [] word = "PHRASE" -> 46
      [] OTHER -> 1

\* len(title)
RECURSIVE TitleLen(_)
TitleLen(title) == IF title = <<>> THEN 0 ELSE Chars(Head(title)) + TitleLen(Tail(title))

\* The loop over high_impact_keywords with 0.2 added for every keyword found
RECURSIVE keyword_bonus_each(_, _)
keyword_bonus_each(keywords, title) ==
    IF keywords = <<>> THEN 0
    ELSE (IF Head(keywords) \in Words(title) THEN 2 ELSE 0)
         + keyword_bonus_each(Tail(keywords), title)

\* Lines 402-405: 'for keyword in high_impact_keywords: if keyword in title:
\* score += 0.2; break', in tenths
RECURSIVE keyword_bonus(_, _)
keyword_bonus(keywords, title) ==
    IF keywords = <<>> THEN 0
    ELSE IF Head(keywords) \in Words(title) THEN 2
    ELSE keyword_bonus(Tail(keywords), title)

\* re.search(r'\d+億円|\d+百万円|\d+千万円', title): a digit directly before a unit
amount_search(title) ==
    \E i \in 1..(Len(title) - 1) :
        title[i] \in Digits /\ title[i + 1] \in {"okuen", "hyakumanen", "senmanen"}

\* StockBasedDataOrganizer.calculate_importance_score, in tenths (the source
\* adds the floats 0.5, 0.3, 0.2 and 0.1)
calculate_importance_score(disclosure) ==
    LET title == Get(disclosure, "title", <<>>)
        category == Get(disclosure, "category_detailed", "")
        high_importance_categories ==
            {"kessantanshin", "gyosekiyosoushusei", "daihyotorishimariyaku", "M&A-baishu",
             "daisanshawariatezoushi"}
        medium_importance_categories ==
            {"kessansetsumeikai", "haitoukin", "kabushikibunkatsu", "jikokabushikishutoku",
             "shinkijigyo", "gyomuteikei", "setsubitoushi"}
        high_impact_keywords ==
            <<"gyosekiyosoushusei", "akaji", "kurojitenkan", "zouhai", "genpai", "muhai",
              "baishu", "gappei">>
        base == IF category \in high_importance_categories THEN 5
                ELSE IF category \in medium_importance_categories THEN 3
                ELSE 1
        score == base + keyword_bonus(high_impact_keywords, title)
                 + (IF amount_search(title) THEN 1 ELSE 0)
                 + (IF TitleLen(title) > 50 THEN 1 ELSE 0)
    IN  IF score < 10 THEN score ELSE 10

-----------------------------------------------------------------------------
(* KabutanDailyCollector: parsing a table row *)

\* None where the code expects a string, and None in place of a record
NoText == <<>>
NoRecord == [None |-> TRUE]

\* The characters \s matches in the texts of the model
Spaces == {" ", "\t"}

\* (\d{2})/(\d{2})/(\d{2}) matches text at position i
DateAt(text, i) ==
    /\ i >= 1 /\ i + 7 <= Len(text)
    /\ text[i + 2] = "/" /\ text[i + 5] = "/"
    /\ \A k \in {0, 1, 3, 4, 6, 7} : text[i + k] \in Digits

\* The text \d{1,2}:\d{2} matches at position w (two hour digits are tried
\* first), NoText when it does not match
TimeAt(text, w) ==
    LET digit(k) == k <= Len(text) /\ text[k] \in Digits
        colon(k) == k <= Len(text) /\ text[k] = ":"
    IN  IF digit(w) /\ digit(w + 1) /\ colon(w + 2) /\ digit(w + 3) /\ digit(w + 4)
        THEN SubSeq(text, w, w + 4)
        ELSE IF digit(w) /\ colon(w + 1) /\ digit(w + 2) /\ digit(w + 3)
        THEN SubSeq(text, w, w + 3)
        ELSE NoText

\* The group \s+(\d{1,2}:\d{2}) captures after the date matched at i
TimeAfter(text, i) ==
    LET rest == {k \in (i + 8)..Len(text) : text[k] \notin Spaces}
        w == IF rest = {} THEN Len(text) + 1
             ELSE CHOOSE k \in rest : \A l \in rest : k <= l
    IN  IF w > i + 8 THEN TimeAt(text, w) ELSE NoText

\* re.search: the leftmost position of a set of matching positions, 0 if none
Leftmost(S) == IF S = {} THEN 0 ELSE CHOOSE i \in S : \A j \in S : i <= j

\* Line 109 with the century of the 1900s
full_year_1900(yy) == 1900 + yy

\* Line 109: two-digit year to four-digit year
full_year(yy) == 2000 + yy

\* Lines 103-113 and 118-123: the date of the match at position i, NoText
\* when month or day is out of range
MatchedDate(text, i) ==
    LET yy == IntOf(SubSeq(text, i, i + 1))
        mm == IntOf(SubSeq(text, i + 3, i + 4))
        dd == IntOf(SubSeq(text, i + 6, i + 7))
    IN  IF 1 <= mm /\ mm <= 12 /\ 1 <= dd /\ dd <= 31
        THEN IsoDate(full_year(yy), mm, dd)
        ELSE NoText

\* KabutanDailyCollector.parse_datetime_str: (date_str, time_str)
parse_datetime_str(text) ==
    LET withTime == Leftmost({i \in 1..Len(text) : DateAt(text, i) /\ TimeAfter(text, i) # NoText})
        dateOnly == Leftmost({i \in 1..Len(text) : DateAt(text, i)})
    IN  IF withTime # 0 /\ MatchedDate(text, withTime) # NoText
        THEN [date |-> MatchedDate(text, withTime), time |-> TimeAfter(text, withTime)]
        ELSE IF dateOnly # 0 /\ MatchedDate(text, dateOnly) # NoText
        THEN [date |-> MatchedDate(text, dateOnly), time |-> NoText]
        ELSE [date |-> NoText, time |-> NoText]

\* A td cell: what get_text() returns for it, and the datetime attribute of a
\* time element inside it (NoText when there is none)
Cell(text, datetime) == [text |-> text, datetime |-> datetime]

\* KabutanDailyCollector.parse_disclosure_row.  The cells are code, company,
\* market, info type, title (a list of words) and disclosure time; only the
\* texts of the cells are read
parse_disclosure_row(cells, year, month) ==
    LET texts == [i \in 1..Len(cells) |-> cells[i].text]
        stock_code_text == texts[1]
        company_name == IF texts[2] # <<>> THEN Str(texts[2]) ELSE "fumei"
        title == IF texts[5] # <<>> THEN texts[5] ELSE <<"fumei">>
        parsed == parse_datetime_str(texts[6])
        date_str == IF parsed.date # NoText THEN parsed.date ELSE IsoDate(year, month, 1)
    IN  IF Len(texts) < 6 THEN NoRecord
        ELSE IF ~ (Len(stock_code_text) = 4 /\ AllDigits(stock_code_text)) THEN NoRecord
        ELSE IF ~ (1000 <= IntOf(stock_code_text) /\ IntOf(stock_code_text) <= 9999)
        THEN NoRecord
        ELSE RawRecord(Str(stock_code_text), company_name, title, date_str)

-----------------------------------------------------------------------------
(* KabutanDailyCollector: parsing a page.  A page is its tables and the    *)
(* texts of its div and li elements with a class of disclosure, item or    *)
(* news, in document order; a table is the words of its th cells and the   *)
(* td cells of its rows.  Tables are not nested and texts come stripped.   *)

\* The characters between which and a digit \b matches: every other element
\* of a text is a word character
NonWord == {" ", "\t", "\n", "/", ":", "-"}

\* re.findall(r'\b(\d{4})\b', text): the positions of the matches
CodeAt(text, i) ==
    /\ i >= 1 /\ i + 3 <= Len(text)
    /\ \A k \in 0..3 : text[i + k] \in Digits
    /\ i > 1 => text[i - 1] \in NonWord
    /\ i + 3 < Len(text) => text[i + 4] \in NonWord

\* KabutanDailyCollector.parse_disclosure_item on the text of the item
parse_disclosure_item(text, year, month) ==
    LET codes == {i \in 1..Len(text) :
                    /\ CodeAt(text, i)
                    /\ 1000 <= IntOf(SubSeq(text, i, i + 3))
                    /\ IntOf(SubSeq(text, i, i + 3)) <= 9999}
        stock_code == SubSeq(text, Leftmost(codes), Leftmost(codes) + 3)
        parsed == parse_datetime_str(text)
        date_str == IF parsed.date # NoText THEN parsed.date ELSE IsoDate(year, month, 1)
        title == IF Len(text) <= 200 THEN text ELSE SubSeq(text, 1, 200)
    IN  IF Words(text) \cap {"tsugihe", "maehe", ">>", "<<"} # {} THEN NoRecord
        ELSE IF \E i \in 1..(Len(text) - 1) :
                    text[i] \in {"code", "kaishamei", "kaijinichiji"} /\ text[i + 1] = "\n"
        THEN NoRecord
        ELSE IF TitleLen(text) < 15 THEN NoRecord
        ELSE IF codes = {} THEN NoRecord
        ELSE RawRecord(Str(stock_code), "chushutsuchu", title, date_str)

\* Lines 266-275: a row of th cells whose text has both column names
is_disclosure_table(table) == {"code", "title"} \subseteq Words(table.header)

\* The loop over the rows that ends at the first row without a record
RECURSIVE rows_loop_break(_, _, _)
rows_loop_break(rows, year, month) ==
    LET cells == Head(rows)
        row_data == IF Len(cells) >= 6 THEN parse_disclosure_row(cells, year, month)
                    ELSE NoRecord
    IN  IF rows = <<>> \/ row_data = NoRecord THEN <<>>
        ELSE <<row_data>> \o rows_loop_break(Tail(rows), year, month)

\* Lines 280-285: the records of the rows with six td cells or more
RECURSIVE rows_loop(_, _, _)
rows_loop(rows, year, month) ==
    LET cells == Head(rows)
        row_data == IF Len(cells) >= 6 THEN parse_disclosure_row(cells, year, month)
                    ELSE NoRecord
    IN  IF rows = <<>> THEN <<>>
        ELSE (IF row_data # NoRecord THEN <<row_data>> ELSE <<>>)
             \o rows_loop(Tail(rows), year, month)

\* Lines 264-285: the loop over the tables
RECURSIVE tables_loop(_, _, _)
tables_loop(tables, year, month) ==
    IF tables = <<>> THEN <<>>
    ELSE (IF is_disclosure_table(Head(tables))
          THEN rows_loop(Head(tables).rows, year, month)
          ELSE <<>>)
         \o tables_loop(Tail(tables), year, month)

\* Lines 292-295: the loop over the items
RECURSIVE items_loop(_, _, _)
items_loop(items, year, month) ==
    LET item_data == parse_disclosure_item(Head(items), year, month)
    IN  IF items = <<>> THEN <<>>
        ELSE (IF item_data # NoRecord THEN <<item_data>> ELSE <<>>)
             \o items_loop(Tail(items), year, month)

\* KabutanDailyCollector.extract_disclosures_from_page
extract_disclosures_from_page(soup, year, month) ==
    LET disclosures == tables_loop(soup.tables, year, month)
    IN  IF disclosures = <<>> THEN items_loop(soup.items, year, month)
        ELSE disclosures

-----------------------------------------------------------------------------
(* The rows the site serves *)

\* datetime.now() of the runs: March 2026
Today == [year |-> 2026, month |-> 3]

\* get_target_months (both classes): the previous month, then the current one
get_target_months ==
    LET prev == IF Today.month = 1
                THEN [year |-> Today.year - 1, month |-> 12]
                ELSE [year |-> Today.year, month |-> Today.month - 1]
    IN  <<prev, Today>>

Codes == {"7203", "6758"}
Months == {1, 2, 3}

Kessan  == <<"kessan", "tanshin">>      \* a title with an earnings keyword
Haitou  == <<"haitou", "yosou">>        \* a title with a dividend keyword
KessanAkaji == <<"kessan", "tanshin", "akaji">>  \* an earnings report with a loss

Row1 == RawRecord("7203", "Toyota", Kessan, IsoDate(Today.year, 2, 6))
Row2 == RawRecord("7203", "Toyota Motor", Kessan, IsoDate(Today.year, 2, 6))  \* key of Row1
Row3 == RawRecord("7203", "Toyota", Haitou, IsoDate(Today.year, 3, 2))
Row4 == RawRecord("6758", "Sony", KessanAkaji, IsoDate(Today.year, 2, 6))
Row0 == RawRecord("7203", "Toyota", Haitou, IsoDate(Today.year, 1, 15))

\* What a collection of Spec can fetch for a month: nothing, one record, two
\* records of two stocks
FetchLists == {<<>>, <<Row1>>, <<Row3, Row4>>}

-----------------------------------------------------------------------------
(* StockBasedDataOrganizer.merge_disclosures *)

\* Lines 137-141: the state of the loop before the first new record
merge_init_empty(existing) ==
    [merged |-> <<>>, existing_keys |-> KeySet(existing), new_count |-> 0, duplicate_count |-> 0]

merge_init(existing) ==
    [merged |-> existing, existing_keys |-> KeySet(existing), new_count |-> 0,
     duplicate_count |-> 0]

\* Lines 144-150: one iteration of the loop over new
merge_step_noadd(st, disclosure) ==
    LET key == create_disclosure_key(disclosure)
    IN  IF key \notin st.existing_keys
        THEN [st EXCEPT !.merged = Append(@, disclosure), !.new_count = @ + 1]
        ELSE [st EXCEPT !.duplicate_count = @ + 1]

merge_step_always(st, disclosure) ==
    [st EXCEPT !.merged = Append(@, disclosure),
               !.existing_keys = @ \cup {create_disclosure_key(disclosure)},
               !.new_count = @ + 1]

merge_step(st, disclosure) ==
    LET key == create_disclosure_key(disclosure)
    IN  IF key \notin st.existing_keys
        THEN [st EXCEPT !.merged = Append(@, disclosure),
                        !.existing_keys = @ \cup {key},
                        !.new_count = @ + 1]
        ELSE [st EXCEPT !.duplicate_count = @ + 1]

\* The loop over new taken from its last record to its first
RECURSIVE merge_loop_reversed(_, _)
merge_loop_reversed(st, new) ==
    IF new = <<>> THEN st
    ELSE merge_loop_reversed(merge_step(st, new[Len(new)]), SubSeq(new, 1, Len(new) - 1))

\* Lines 142-150: 'for disclosure in new'
RECURSIVE merge_loop(_, _)
merge_loop(st, new) ==
    IF new = <<>> THEN st ELSE merge_loop(merge_step(st, Head(new)), Tail(new))

\* The new records appended to the existing ones without a look at their keys
merge_disclosures_append(existing, new) == existing \o new

\* The list merge_disclosures returns
merge_disclosures(existing, new) == merge_loop(merge_init(existing), new).merged

\* What merge_disclosures adds to stats['new_disclosures'], stats['duplicate_disclosures']
merge_counts(existing, new) ==
    LET st == merge_loop(merge_init(existing), new)
    IN  [new_disclosures |-> st.new_count, duplicate_disclosures |-> st.duplicate_count]

-----------------------------------------------------------------------------
(* S3 documents *)

\* f"{year}-{month:02d}" : the name of a month's document
MonthKey(year, month) == Str(Pad4(year) \o <<"-">> \o Pad2(month))

TargetKeys == [i \in 1..2 |-> MonthKey(get_target_months[i].year, get_target_months[i].month)]
PeriodKeys == {MonthKey(Today.year, m) : m \in Months}

\* Counter-style dict: how many elements of the list have each value of field f
Histogram(disclosures, f, default) ==
    LET val(i) == Get(disclosures[i], f, default)
    IN  [v \in {val(i) : i \in 1..Len(disclosures)} |->
            Cardinality({i \in 1..Len(disclosures) : val(i) = v})]

RECURSIVE SumOver(_, _)
SumOver(h, keys) ==
    IF keys = {} THEN 0
    ELSE LET k == CHOOSE x \in keys : TRUE IN h[k] + SumOver(h, keys \ {k})
HistogramTotal(h) == SumOver(h, DOMAIN h)

\* KabutanDailyCollector.save_month_to_s3: the document it puts
month_data_distinct(year, month, disclosures) ==
    [year |-> year, month |-> month,
     total_disclosures |-> Cardinality(KeySet(disclosures)),
     disclosures |-> disclosures,
     categories |-> Histogram(disclosures, "category", "sonota"),
     companies |-> Histogram(disclosures, "company_name", "fumei")]

month_data(year, month, disclosures) ==
    [year |-> year, month |-> month,
     total_disclosures |-> Len(disclosures),
     disclosures |-> disclosures,
     categories |-> Histogram(disclosures, "category", "sonota"),
     companies |-> Histogram(disclosures, "company_name", "fumei")]

\* A run that saves whatever was fetched
saves_always(new_disclosures) == TRUE

\* Line 460 of run_daily_collection: 'if new_disclosures:'
saves(new_disclosures) == new_disclosures # <<>>

\* An object that keeps the records it held in front of the records put
put_object_append(store, key, doc) ==
    IF store[key] = NoDoc THEN [store EXCEPT ![key] = doc]
    ELSE [store EXCEPT ![key] =
             [doc EXCEPT !.disclosures = store[key].disclosures \o doc.disclosures]]

\* self.s3.put_object(Bucket, Key, Body) of lines 418-421: the object of the
\* key is the document put
put_object(store, key, doc) == [store EXCEPT ![key] = doc]

\* Order of two date strings as Python compares str: by code point
CodePoint(c) == IF c = "-" THEN 45 ELSE IF c = "/" THEN 47 ELSE 48 + DigitVal(c)
RECURSIVE StrLess(_, _)
StrLess(a, b) ==
    IF b = <<>> THEN FALSE
    ELSE IF a = <<>> THEN TRUE
    ELSE IF Head(a) # Head(b) THEN CodePoint(Head(a)) < CodePoint(Head(b))
    ELSE StrLess(Tail(a), Tail(b))

\* sorted(disclosures, key=lambda x: x.get('date_normalized', '')) : stable
RECURSIVE SortedByDate(_)
SortedByDate(disclosures) ==
    IF disclosures = <<>> THEN <<>>
    ELSE LET rest == SortedByDate(SubSeq(disclosures, 1, Len(disclosures) - 1))
             x == disclosures[Len(disclosures)]
             k(d) == Get(d, "date_normalized", <<>>)
             \* x goes after every element that is not greater than it
             n == Cardinality({i \in 1..Len(rest) : ~ StrLess(k(x), k(rest[i]))})
         IN  SubSeq(rest, 1, n) \o <<x>> \o SubSeq(rest, n + 1, Len(rest))

-----------------------------------------------------------------------------
(* StockBasedDataOrganizer: enhancing a record and summarising a stock *)

\* 'keyword in text' for a keyword written as a phrase of words: the words of
\* the phrase occur in the text one after the other
Occurs(phrase, text) ==
    \E i \in 0..(Len(text) - Len(phrase)) : SubSeq(text, i + 1, i + Len(phrase)) = phrase

\* The dict detailed_categories in its order: a label and its keywords.  A
\* word of the model that contains a keyword is listed with it
\* ("gyosekiyosoushusei" contains 'gyoseki yosou').  'CEO' is compared with
\* the lowered text and occurs in none.
detailed_categories ==
    << [category |-> "kessantanshin",
        keywords |-> {<<"kessan", "tanshin">>, <<"shihanki", "kessan", "tanshin">>}],
       [category |-> "kessansetsumeikai",
        keywords |-> {<<"kessan", "setsumeikai">>, <<"kessan", "briefing">>,
                      <<"gyoseki", "setsumeikai">>}],
       [category |-> "gyosekiyosoushusei",
        keywords |-> {<<"gyoseki", "yosou">>, <<"gyosekiyosoushusei">>,
                      <<"gyoseki", "mitoshi", "shusei">>, <<"gyoseki", "shusei">>}],
       [category |-> "haitoukin",
        keywords |-> {<<"haitou", "kin">>, <<"kimatsu", "haitou">>, <<"chukan", "haitou">>,
                      <<"tokubetsu", "haitou">>}],
       [category |-> "kabunushiyutai",
        keywords |-> {<<"kabunushiyutai">>, <<"yutai", "seido">>}],
       [category |-> "jikokabushikishutoku",
        keywords |-> {<<"jikokabushiki", "shutoku">>, <<"jishakabugai">>}],
       [category |-> "kabushikibunkatsu",
        keywords |-> {<<"kabushiki", "bunkatsu">>, <<"kabushiki", "heigo">>}],
       [category |-> "shinkabuyoyakuken",
        keywords |-> {<<"shinkabuyoyakuken">>, <<"stockoption">>}],
       [category |-> "daisanshawariatezoushi",
        keywords |-> {<<"daisanshawariate">>, <<"daisanshawariate", "zoushi">>}],
       [category |-> "daihyotorishimariyaku",
        keywords |-> {<<"daihyotorishimariyaku">>, <<"shacho">>}],
       [category |-> "yakuinjinji",
        keywords |-> {<<"torishimariyaku">>, <<"kansayaku">>, <<"shikkoyakuin">>}],
       [category |-> "M&A-baishu",
        keywords |-> {<<"baishu">>, <<"kabushiki", "shutoku">>, <<"kogaishaka">>}],
       [category |-> "gyomuteikei",
        keywords |-> {<<"gyomuteikei">>, <<"shihonteikei">>}],
       [category |-> "shinkijigyo",
        keywords |-> {<<"shinki", "jigyo">>, <<"jigyo", "sannyu">>}],
       [category |-> "shinseihinhappyo",
        keywords |-> {<<"shinseihin">>, <<"shinshohin">>}],
       [category |-> "setsubitoushi",
        keywords |-> {<<"setsubi", "toushi">>, <<"koujou", "kensetsu">>}],
       [category |-> "tekijikaijiteisei",
        keywords |-> {<<"teisei">>, <<"shusei">>, <<"torikeshi">>}],
       [category |-> "yukashokenhokokusho",
        keywords |-> {<<"yukashokenhokokusho">>, <<"shihanki", "hokokusho">>}],
       [category |-> "teijikabunushisokai",
        keywords |-> {<<"teiji", "kabunushisokai">>}],
       [category |-> "rinjikabunushisokai",
        keywords |-> {<<"rinji", "kabunushisokai">>}] >>

\* StockBasedDataOrganizer.detailed_categorization: the first label with a
\* keyword in 'title company_name' decides
detailed_categorization(title, company_name) ==
    LET text == title \o <<company_name>>
        hit(i) == \E keyword \in detailed_categories[i].keywords : Occurs(keyword, text)
    IN  IF \E i \in 1..Len(detailed_categories) : hit(i)
        THEN detailed_categories[CHOOSE i \in 1..Len(detailed_categories) :
                                    hit(i) /\ \A j \in 1..(i - 1) : ~ hit(j)].category
        ELSE "sonota"

\* s.strip() and whether int(s) returns: digits with an optional sign
RECURSIVE lstrip(_)
lstrip(cs) == IF cs # <<>> /\ Head(cs) \in Spaces THEN lstrip(Tail(cs)) ELSE cs
RECURSIVE rstrip(_)
rstrip(cs) ==
    IF cs # <<>> /\ cs[Len(cs)] \in Spaces THEN rstrip(SubSeq(cs, 1, Len(cs) - 1)) ELSE cs
int_returns(s) ==
    LET t == rstrip(lstrip(s))
        digits == IF t # <<>> /\ Head(t) \in {"+", "-"} THEN Tail(t) ELSE t
    IN  digits # <<>> /\ AllDigits(digits)

\* Lines 268-273: int(date_normalized[:4]) or int(date_normalized[5:7]) raises
\* ValueError for a date normalize_date returned as it was
enhance_raises(disclosure) ==
    LET date_str == Get(disclosure, "date", <<>>)
        date_normalized == normalize_date(date_str)
        slice(lo, hi) == SubSeq(date_normalized, lo,
                                IF hi < Len(date_normalized) THEN hi ELSE Len(date_normalized))
    IN  /\ date_str # <<>>
        /\ \/ ~ int_returns(slice(1, 4))
           \/ ~ int_returns(slice(6, 7))

\* StockBasedDataOrganizer.enhance_disclosure_data, when it returns: the copy
\* of the record with date_normalized added when the record has a date, and
\* with category_detailed and importance_score
enhance_disclosure_data(disclosure) ==
    LET dated == IF Get(disclosure, "date", <<>>) # <<>>
                 THEN [f \in DOMAIN disclosure \cup {"date_normalized"} |->
                         IF f = "date_normalized" THEN normalize_date(disclosure.date)
                         ELSE disclosure[f]]
                 ELSE disclosure
        categorized == [f \in DOMAIN dated \cup {"category_detailed"} |->
                          IF f = "category_detailed"
                          THEN detailed_categorization(Get(dated, "title", <<>>),
                                                       Get(dated, "company_name", ""))
                          ELSE dated[f]]
    IN  [f \in DOMAIN categorized \cup {"importance_score"} |->
            IF f = "importance_score" THEN calculate_importance_score(categorized)
            ELSE categorized[f]]

\* The tiers with a record of score 0.7 in none of them
importance_distribution_above(disclosures) ==
    LET score(d) == Get(d, "importance_score", 0)
        count(Test(_)) == Cardinality({i \in 1..Len(disclosures) : Test(disclosures[i])})
        high(d) == score(d) > 7
        medium(d) == 4 <= score(d) /\ score(d) < 7
        low(d) == score(d) < 4
    IN  [high |-> count(high), medium |-> count(medium), low |-> count(low)]

\* Lines 448-452: importance_distribution, the scores in tenths
importance_distribution(disclosures) ==
    LET score(d) == Get(d, "importance_score", 0)
        count(Test(_)) == Cardinality({i \in 1..Len(disclosures) : Test(disclosures[i])})
        high(d) == score(d) >= 7
        medium(d) == 4 <= score(d) /\ score(d) < 7
        low(d) == score(d) < 4
    IN  [high |-> count(high), medium |-> count(medium), low |-> count(low)]

\* StockBasedDataOrganizer.create_stock_summary (the counts)
create_stock_summary(stock_code, disclosures) ==
    IF disclosures = <<>> THEN <<>>
    ELSE [total_disclosures |-> Len(disclosures),
          category_distribution |-> Histogram(disclosures, "category_detailed", "sonota"),
          importance_distribution |-> importance_distribution(disclosures)]

\* StockBasedDataOrganizer.save_stock_data_to_s3: the document it puts
stock_doc(stock_code, disclosures) ==
    LET sorted_disclosures == SortedByDate(disclosures)
    IN  [stock_code |-> stock_code,
         summary |-> create_stock_summary(stock_code, sorted_disclosures),
         disclosures |-> sorted_disclosures]

\* StockBasedDataOrganizer.create_master_index: the document it puts
index_data(data) ==
    [total_stocks |-> Cardinality(DOMAIN data),
     total_disclosures |-> SumOver([c \in DOMAIN data |-> Len(data[c])], DOMAIN data),
     stocks |-> [c \in {x \in DOMAIN data : data[x] # <<>>} |->
                    [total_disclosures |-> Len(data[c])]]]

-----------------------------------------------------------------------------
(* StockBasedDataOrganizer.load_all_monthly_data *)

\* Lines 209-224: the record has a four-character stock code and is not a
\* pagination fragment
Pagination == {"tsugihe", "maehe", ">>", "<<"}
accepted(disclosure) ==
    LET stock_code == Get(disclosure, "stock_code", "")
        title == Get(disclosure, "title", <<>>)
        cn == Get(disclosure, "company_name", "")
    IN  /\ stock_code # "" /\ Len(stock_code) = 4
        /\ Words(title) \cap Pagination = {}
        /\ cn \notin Pagination
        /\ ~ (cn = "chushutsuchu" /\ (Len(Str(title)) > 100 \/ "\n" \in Words(title)))

\* Lines 205-229 inside the try of lines 185-233: the enhanced accepted
\* records of one monthly document, in file order, up to the first accepted
\* record for which enhance_disclosure_data raises; the except clause of the
\* file then leaves the loop
RECURSIVE file_records(_)
file_records(disclosures) ==
    IF disclosures = <<>> THEN <<>>
    ELSE IF ~ accepted(Head(disclosures)) THEN file_records(Tail(disclosures))
    ELSE IF enhance_raises(Head(disclosures)) THEN <<>>
    ELSE <<enhance_disclosure_data(Head(disclosures))>> \o file_records(Tail(disclosures))

\* The except clause of lines 231-233 is reached while the records are grouped
file_raises(disclosures) ==
    \E i \in 1..Len(disclosures) : accepted(disclosures[i]) /\ enhance_raises(disclosures[i])

\* get_monthly_files_list: the stored monthly documents, sorted by key
RECURSIVE files_from(_)
files_from(m) ==
    IF m > 12 THEN <<>>
    ELSE (IF m \in Months /\ periodStore[MonthKey(Today.year, m)] # NoDoc
          THEN <<MonthKey(Today.year, m)>> ELSE <<>>) \o files_from(m + 1)
get_monthly_files_list == files_from(1)

\* Lines 165-176: the files of a run
monthly_files(m) == IF m = "full" THEN get_monthly_files_list ELSE TargetKeys

\* Every accepted record of the readable files, in reading order
RECURSIVE loaded_records(_, _)
loaded_records(files, unreadable) ==
    IF files = <<>> THEN <<>>
    ELSE LET k == Head(files)
             here == IF k \in unreadable \/ periodStore[k] = NoDoc THEN <<>>
                     ELSE file_records(periodStore[k].disclosures)
         IN  here \o loaded_records(Tail(files), unreadable)

\* stock_data[stock_code].append(...) : records grouped by stock code
group_by_code(records) ==
    [c \in {records[i].stock_code : i \in 1..Len(records)} |->
        LET Test(d) == d.stock_code = c IN SelectSeq(records, Test)]

\* The code of every record, in order
RECURSIVE first_seen_every(_, _)
first_seen_every(records, seen) ==
    IF records = <<>> THEN <<>>
    ELSE <<Head(records).stock_code>> \o first_seen_every(Tail(records), seen)

\* list(stock_data.keys()) : the codes in order of first appearance
RECURSIVE first_seen(_, _)
first_seen(records, seen) ==
    IF records = <<>> THEN <<>>
    ELSE LET c == Head(records).stock_code
         IN  IF c \in seen THEN first_seen(Tail(records), seen)
             ELSE <<c>> \o first_seen(Tail(records), seen \cup {c})

-----------------------------------------------------------------------------
(* Initial values *)

ZeroStats == [new_disclosures |-> 0, duplicate_disclosures |-> 0, created_files |-> 0,
              updated_files |-> 0, errors |-> 0]

\* January was collected in its time; nothing has been aggregated yet
StoresInit ==
    /\ periodStore = [k \in PeriodKeys |->
                        IF k = MonthKey(Today.year, 1)
                        THEN month_data(Today.year, 1, <<Row0>>) ELSE NoDoc]
    /\ entityStore = [c \in Codes |-> NoDoc]
    /\ index = NoDoc
    /\ last = [op |-> "init"]

AggIdle ==
    /\ mode = "idle" /\ stock_data = <<>> /\ stock_codes = <<>>
    /\ stats = ZeroStats /\ prevClean = FALSE /\ runClean = FALSE
    /\ run_start = <<>>

MergeIdle ==
    /\ m_pc = "off" /\ m_existing = <<>> /\ m_new = <<>> /\ m_merged = <<>> /\ m_twice = <<>>

WalkIdle ==
    /\ pc = "off" /\ target_months = <<>> /\ page = 0 /\ consecutive_empty = 0 /\ retry = 0
    /\ all_disclosures = <<>> /\ request_count = 0 /\ requested = {} /\ yielded = <<>>
    /\ last_page = 0 /\ failBudget = 0
    /\ server = [data_pages |-> 0, fail_pages |-> 0] /\ walk_log = <<>> /\ page_log = <<>>
    /\ min_gap = 0

ParseIdle ==
    /\ p_op = "off" /\ p_arg = <<>> /\ p_ret = <<>>

-----------------------------------------------------------------------------
(* Spec: collection runs and Aggregator runs over the S3 documents *)

\* run_daily_collection, lines 454-467, for target month i, given the list
\* fetch_month_disclosures returned and whether the put succeeds
Collect(i, new_disclosures, s3ok) ==
    LET t == get_target_months[i]
        saved == saves(new_disclosures) /\ s3ok
        doc == month_data(t.year, t.month, new_disclosures)
    IN  /\ mode = "idle"
        /\ periodStore' = IF saved THEN put_object(periodStore, TargetKeys[i], doc)
                                    ELSE periodStore
        /\ prevClean' = (prevClean /\ periodStore' = periodStore)
        /\ runClean' = (runClean /\ periodStore' = periodStore)
        /\ last' = [op |-> "other"]
        /\ UNCHANGED <<entityStore, index, mode, stock_data, stock_codes, stats, run_start>>
        /\ UNCHANGED <<mergeVars, walkVars, parseVars>>

\* run_stock_based_organization up to the end of Step 1: load_all_monthly_data
\* in mode m, the reads of the files in unreadable failing
StartRun(m, unreadable) ==
    LET files == monthly_files(m)
        records == loaded_records(files, unreadable)
        failed == {i \in 1..Len(files) :
                      \/ files[i] \in unreadable \/ periodStore[files[i]] = NoDoc
                      \/ file_raises(periodStore[files[i]].disclosures)}
        data == group_by_code(records)
    IN  /\ mode = "idle"
        /\ IF records = <<>>
           THEN \* "if not stock_data: return False"
                /\ mode' = "idle" /\ stock_data' = <<>> /\ stock_codes' = <<>>
                /\ stats' = ZeroStats /\ runClean' = FALSE /\ prevClean' = FALSE
           ELSE /\ mode' = m
                /\ stock_data' = data
                /\ stock_codes' = first_seen(records, {})
                /\ stats' = [ZeroStats EXCEPT !.errors = Cardinality(failed)]
                /\ runClean' = (failed = {})
                /\ prevClean' = prevClean
        /\ last' = [op |-> "other"]
        /\ UNCHANGED <<periodStore, entityStore, index, run_start>>
        /\ UNCHANGED <<mergeVars, walkVars, parseVars>>

\* load_existing_stock_data: None (NoDoc) unless the document exists and is read
load_existing_stock_data(stock_code, readOK) ==
    IF entityStore[stock_code] = NoDoc \/ ~ readOK THEN NoDoc ELSE entityStore[stock_code]

\* Lines 609-634: what one iteration of process_stocks_in_batches saves for a
\* stock code: Skip, or the list handed to save_stock_data_to_s3
to_save_overwrite(m, existing_data, new_disclosures) ==
    [list |-> new_disclosures, is_update |-> FALSE]

to_save(m, existing_data, new_disclosures) ==
    IF m = "incremental" /\ existing_data # NoDoc
    THEN LET merged_disclosures == merge_disclosures(existing_data.disclosures, new_disclosures)
         IN  IF Len(merged_disclosures) > Len(existing_data.disclosures)
             THEN [list |-> merged_disclosures, is_update |-> TRUE]
             ELSE Skip
    ELSE [list |-> new_disclosures, is_update |-> FALSE]

\* A failed put that is not counted
write_errors_none(write) == 0

\* save_stock_data_to_s3, lines 557-560: 'except Exception: stats['errors'] += 1;
\* return False'
write_errors(write) == IF write = "fail" THEN 1 ELSE 0

\* One iteration of the loop of process_stocks_in_batches, the read of the
\* existing document and the put succeeding or not
ProcessStock(readOK, putOK) ==
    /\ mode # "idle" /\ stock_codes # <<>>
    /\ LET stock_code == Head(stock_codes)
           new_disclosures == stock_data[stock_code]
           existing_data == IF mode = "incremental"
                            THEN load_existing_stock_data(stock_code, readOK) ELSE NoDoc
           read == IF mode # "incremental" THEN "none"
                   ELSE IF ~ readOK THEN "error"
                   ELSE IF entityStore[stock_code] = NoDoc THEN "notfound" ELSE "ok"
           save == to_save(mode, existing_data, new_disclosures)
           counts == IF mode = "incremental" /\ existing_data # NoDoc
                     THEN merge_counts(existing_data.disclosures, new_disclosures)
                     ELSE [new_disclosures |-> 0, duplicate_disclosures |-> 0]
           write == IF save = Skip THEN "none" ELSE IF putOK THEN "ok" ELSE "fail"
       IN  /\ entityStore' = IF write = "ok"
                              THEN [entityStore EXCEPT ![stock_code] = stock_doc(stock_code, save.list)]
                              ELSE entityStore
           /\ stats' = [stats EXCEPT
                  !.new_disclosures = @ + counts.new_disclosures,
                  !.duplicate_disclosures = @ + counts.duplicate_disclosures,
                  !.created_files = @ + (IF write = "ok" /\ ~ save.is_update THEN 1 ELSE 0),
                  !.updated_files = @ + (IF write = "ok" /\ save.is_update THEN 1 ELSE 0),
                  !.errors = @ + write_errors(write)]
           /\ runClean' = (runClean /\ read # "error" /\ write # "fail")
           /\ last' = [op |-> "process", mode |-> mode, stock_code |-> stock_code,
                        read |-> read, write |-> write]
    /\ stock_codes' = Tail(stock_codes)
    /\ UNCHANGED <<periodStore, index, mode, stock_data, prevClean, run_start>>
    /\ UNCHANGED <<mergeVars, walkVars, parseVars>>

\* run_stock_based_organization, Steps 4 and 5: the index is written in full
\* mode only; the run is over
FinishRun(putOK) ==
    /\ mode # "idle" /\ stock_codes = <<>>
    /\ index' = IF mode = "full" /\ putOK THEN index_data(stock_data) ELSE index
    /\ prevClean' = (mode = "incremental" /\ runClean)
    /\ last' = [op |-> "other"]
    /\ mode' = "idle" /\ stock_data' = <<>> /\ stats' = ZeroStats /\ runClean' = FALSE
    /\ UNCHANGED <<periodStore, entityStore, stock_codes, run_start>>
    /\ UNCHANGED <<mergeVars, walkVars, parseVars>>

\* The process is stopped between two stock codes
Interrupt ==
    /\ mode # "idle" /\ stock_codes # <<>>
    /\ mode' = "idle" /\ stock_data' = <<>> /\ stock_codes' = <<>> /\ stats' = ZeroStats
    /\ runClean' = FALSE /\ prevClean' = FALSE
    /\ last' = [op |-> "other"]
    /\ UNCHANGED <<periodStore, entityStore, index, run_start>>
    /\ UNCHANGED <<mergeVars, walkVars, parseVars>>

Init == StoresInit /\ AggIdle /\ MergeIdle /\ WalkIdle /\ ParseIdle

Next ==
    \/ \E i \in 1..2, new_disclosures \in FetchLists, s3ok \in BOOLEAN :
          Collect(i, new_disclosures, s3ok)
    \/ \E m \in {"full", "incremental"}, unreadable \in {{}} \cup {{k} : k \in PeriodKeys} :
          StartRun(m, unreadable)
    \/ \E readOK \in BOOLEAN, putOK \in BOOLEAN : ProcessStock(readOK, putOK)
    \/ \E putOK \in BOOLEAN : FinishRun(putOK)
    \/ Interrupt

Spec == Init /\ [][Next]_vars

-----------------------------------------------------------------------------
(* SpecResume: incremental runs, interrupted or not, over fixed PeriodStores *)

\* The monthly documents of the two target months, and the stock documents
\* earlier runs have stored
ResumeLists == {<<Row1>>, <<Row1, Row2>>, <<Row3, Row4>>}
ResumeStores ==
    {[c \in Codes |-> IF c = "7203" THEN a ELSE b] :
        a \in {NoDoc, stock_doc("7203", <<enhance_disclosure_data(Row0)>>),
               stock_doc("7203", <<enhance_disclosure_data(Row0),
                                   enhance_disclosure_data(Row1)>>)},
        b \in {NoDoc, stock_doc("6758", <<enhance_disclosure_data(Row4)>>)}}

ResumeInit ==
    /\ \E a \in ResumeLists, b \in ResumeLists \cup {<<>>} :
          periodStore = [k \in PeriodKeys |->
                           IF k = TargetKeys[1]
                           THEN month_data(get_target_months[1].year,
                                           get_target_months[1].month, a)
                           ELSE IF k = TargetKeys[2] /\ b # <<>>
                           THEN month_data(get_target_months[2].year,
                                           get_target_months[2].month, b)
                           ELSE NoDoc]
    /\ entityStore \in ResumeStores
    /\ run_start = entityStore
    /\ index = NoDoc /\ last = [op |-> "init"]
    /\ mode = "idle" /\ stock_data = <<>> /\ stock_codes = <<>>
    /\ stats = ZeroStats /\ prevClean = FALSE /\ runClean = FALSE
    /\ MergeIdle /\ WalkIdle /\ ParseIdle

\* python organize_stock_disclosures.py --mode incremental, every read and
\* every put succeeding
ResumeStart == StartRun("incremental", {})
ResumeProcess == ProcessStock(TRUE, TRUE)
ResumeFinish == FinishRun(TRUE)

ResumeNext == ResumeStart \/ ResumeProcess \/ ResumeFinish \/ Interrupt

SpecResume == ResumeInit /\ [][ResumeNext]_vars

\* The EntityStores one incremental run that visits every code of data leaves
\* behind when it starts from the stores store
run_result(store, data) ==
    [c \in Codes |->
        IF c \notin DOMAIN data THEN store[c]
        ELSE LET save == to_save("incremental", store[c], data[c])
             IN  IF save = Skip THEN store[c] ELSE stock_doc(c, save.list)]

-----------------------------------------------------------------------------
(* SpecMerge: merge_disclosures on bounded arguments *)

\* Records of one stock: two with the same key (one enhanced, one as parsed)
\* and one with another key
MergeRows == {enhance_disclosure_data(Row1), Row2, enhance_disclosure_data(Row3)}

\* Thirteen records of one stock with thirteen keys
ScenarioRow(i) ==
    enhance_disclosure_data(RawRecord("7203", "Toyota", Kessan, IsoDate(Today.year, 2, i)))
ScenarioExisting == [i \in 1..10 |-> ScenarioRow(i)]
ScenarioNew ==
    <<ScenarioRow(11), ScenarioRow(3), ScenarioRow(12), ScenarioRow(7), ScenarioRow(13)>>

MergeInit ==
    /\ StoresInit /\ AggIdle /\ WalkIdle /\ ParseIdle
    /\ m_pc = "input" /\ m_merged = <<>> /\ m_twice = <<>>
    /\ \/ /\ m_existing \in SeqsUpTo(MergeRows, MaxLen)
          /\ m_new \in SeqsUpTo(MergeRows, MaxLen)
       \/ /\ m_existing = ScenarioExisting
          /\ m_new = ScenarioNew

\* merged_disclosures = self.merge_disclosures(existing_disclosures, new_disclosures)
Merge ==
    /\ m_pc = "input"
    /\ m_merged' = merge_disclosures(m_existing, m_new)
    /\ m_pc' = "merged"
    /\ UNCHANGED <<m_existing, m_new, m_twice, periodStore, last, aggVars, walkVars, parseVars>>

\* merge_disclosures([], X) and merge_disclosures([], X ++ X) for X = m_new
Dedupe ==
    /\ m_pc = "input"
    /\ m_merged' = merge_disclosures(<<>>, m_new)
    /\ m_twice' = merge_disclosures(<<>>, m_new \o m_new)
    /\ m_pc' = "deduped"
    /\ UNCHANGED <<m_existing, m_new, periodStore, last, aggVars, walkVars, parseVars>>

MergeNext == Merge \/ Dedupe

SpecMerge == MergeInit /\ [][MergeNext]_vars

-----------------------------------------------------------------------------
(* SpecWalk: KabutanDailyCollector.run_daily_collection, page by page *)

max_retries == 3
max_consecutive_empty == 20
session_reset_interval == 200
max_pages == 1000

\* Seconds are counted in tenths: delay_base 1.0, delay_variance 0.3,
\* retry_delay 5.0; Retry(total=2, backoff_factor=0.5) of the session's adapter
delay_base == 10
delay_variance == 3
retry_delay == 50
adapter_total == 2
backoff_factor == 5

\* Lines 346-349: the shortest time.sleep(delay) before attempt r of a page
min_delay(r) == delay_base - delay_variance + (IF r > 0 THEN retry_delay ELSE 0)

\* The longest delay of lines 346-349: min_gap before the first request
longest_delay == delay_base + delay_variance + retry_delay

\* Lines 71-76: the adapter sends the request of one session.get again, up to
\* adapter_total times, when the answer has a status of status_forcelist or
\* the connection fails; urllib3 sleeps backoff_factor * 2^(n-1) before the
\* n-th time it sends again, but not before the first
RECURSIVE Pow2(_)
Pow2(n) == IF n = 0 THEN 1 ELSE 2 * Pow2(n - 1)
adapter_backoff(n) == IF n <= 1 THEN 0 ELSE backoff_factor * Pow2(n - 1)

\* The shortest sleep before one of the sends HTTP requests of attempt r
attempt_gap(r, sends) ==
    LET gaps == {min_delay(r)} \cup {adapter_backoff(n) : n \in 1..(sends - 1)}
    IN  CHOOSE g \in gaps : \A h \in gaps : g <= h

\* Line 335: the condition of the page loop
walking_on == TRUE
walking == consecutive_empty < max_consecutive_empty

\* The numbers of HTTP requests one session.get can send
Sends == 1..(adapter_total + 1)

\* What extract_disclosures_from_page finds on a page that has records: one
\* row, or two rows of which the first is also on the other pages
PageLists == {<<>>, <<Row1>>, <<Row1, Row3>>}

\* The last-page markers a month's page 1 can show (0: none)
Markers == {0, 3, MaxLastPage}

\* What a call of session.get can end in other than status 200: a response
\* with status 429 (line 359), a response with another status (line 362; 404
\* stands for them) or an exception (line 365), which includes the adapter's
\* RetryError after answers with a status of status_forcelist
Failures == {"429", "404", "exception"}

\* The run of the day before stored a document for the first target month
WalkStores ==
    /\ periodStore = [k \in PeriodKeys |->
                        IF k = MonthKey(Today.year, 1)
                        THEN month_data(Today.year, 1, <<Row0>>)
                        ELSE IF k = TargetKeys[1]
                        THEN month_data(get_target_months[1].year,
                                        get_target_months[1].month, <<Row4>>)
                        ELSE NoDoc]
    /\ entityStore = [c \in Codes |-> NoDoc]
    /\ index = NoDoc
    /\ last = [op |-> "init"]

WalkInit ==
    /\ WalkStores /\ AggIdle /\ MergeIdle /\ ParseIdle
    /\ pc = "run" /\ target_months = <<1, 2>>
    /\ page = 0 /\ consecutive_empty = 0 /\ retry = 0 /\ all_disclosures = <<>>
    /\ request_count = 0 /\ requested = {} /\ yielded = <<>> /\ last_page = 0
    /\ failBudget = MaxFailedAttempts
    /\ server = [data_pages |-> MaxDataPages, fail_pages |-> MaxDataPages]
    /\ walk_log = <<>> /\ page_log = <<>> /\ min_gap = longest_delay

\* run_daily_collection enters fetch_month_disclosures for the next target
\* month (lines 454-459, 327-333); the server's page 1 will show marker
StartMonth(marker) ==
    /\ pc = "run" /\ target_months # <<>>
    /\ pc' = "fetch"
    /\ page' = 1 /\ consecutive_empty' = 0 /\ retry' = 0 /\ all_disclosures' = <<>>
    /\ requested' = {} /\ yielded' = <<>>
    /\ walk_log' = <<>> /\ page_log' = <<>> /\ min_gap' = longest_delay
    /\ last_page' = marker
    /\ last' = [op |-> "other"]
    /\ UNCHANGED <<target_months, request_count, failBudget, server, periodStore, aggVars,
                   mergeVars, parseVars>>

\* Lines 336-338: the session is renewed at the top of an iteration
session_count == IF retry = 0 /\ request_count >= session_reset_interval THEN 0 ELSE request_count

\* Lines 378-384 without the reset of line 379
after_page_noreset(page_disclosures) ==
    [consecutive_empty |-> consecutive_empty + 1,
     all_disclosures |-> all_disclosures \o page_disclosures,
     page |-> page + 1,
     pc |-> IF page + 1 > max_pages THEN "fetched" ELSE "fetch"]

\* Lines 378-389: the loop state after a page that was fetched and parsed
after_page(page_disclosures) ==
    [consecutive_empty |-> IF page_disclosures # <<>> THEN 0 ELSE consecutive_empty + 1,
     all_disclosures |-> all_disclosures \o page_disclosures,
     page |-> page + 1,
     pc |-> IF page + 1 > max_pages THEN "fetched" ELSE "fetch"]

\* range(self.max_retries) with one attempt more
retries_exhausted_late(r) == r + 1 > max_retries

\* Line 343: attempt r (from 0) is the last one of range(self.max_retries)
retries_exhausted(r) == r + 1 >= max_retries

\* The attempts made for the page being tried, this one included
attempts(outcome) == (IF retry = 0 THEN <<>> ELSE page_log) \o <<outcome>>

\* An attempt answered with status 200 (lines 351-358), then lines 375-389
AttemptOK(page_disclosures, sends) ==
    /\ pc = "fetch" /\ walking
    /\ page_disclosures # <<>> => page <= server.data_pages
    /\ sends > 1 => (failBudget > 0 /\ page <= server.fail_pages)
    /\ min_gap' = IF attempt_gap(retry, sends) < min_gap THEN attempt_gap(retry, sends)
                  ELSE min_gap
    /\ LET nxt == after_page(page_disclosures)
       IN  /\ consecutive_empty' = nxt.consecutive_empty
           /\ all_disclosures' = nxt.all_disclosures
           /\ page' = nxt.page
           /\ pc' = nxt.pc
           /\ last' = IF nxt.pc = "fetched" THEN [op |-> "ceiling"] ELSE [op |-> "other"]
    /\ yielded' = yielded \o page_disclosures
    /\ request_count' = session_count + 1
    /\ requested' = requested \cup {page}
    /\ retry' = 0
    /\ page_log' = attempts("200")
    /\ walk_log' = Append(walk_log, IF page_disclosures # <<>> THEN "data" ELSE "empty")
    /\ UNCHANGED <<target_months, last_page, failBudget, server, periodStore, aggVars,
                   mergeVars, parseVars>>

\* An attempt that ends in status 429, another status or an exception of
\* session.get (lines 359-367); after max_retries of them the page has failed
\* (lines 369-373)
AttemptFail(outcome, sends) ==
    /\ pc = "fetch" /\ walking
    /\ failBudget > 0 /\ page <= server.fail_pages
    /\ min_gap' = IF attempt_gap(retry, sends) < min_gap THEN attempt_gap(retry, sends)
                  ELSE min_gap
    /\ failBudget' = failBudget - 1
    /\ request_count' = IF outcome = "exception" THEN session_count ELSE session_count + 1
    /\ requested' = requested \cup {page}
    /\ page_log' = attempts(outcome)
    /\ IF ~ retries_exhausted(retry)
       THEN /\ retry' = retry + 1
            /\ last' = [op |-> "other"]
            /\ UNCHANGED <<consecutive_empty, page, walk_log>>
       ELSE /\ retry' = 0
            /\ consecutive_empty' = consecutive_empty + 1
            /\ page' = page + 1
            /\ walk_log' = Append(walk_log, "failed")
            /\ last' = [op |-> "page_failed"]
    /\ UNCHANGED <<pc, target_months, all_disclosures, yielded, last_page, server,
                   periodStore, aggVars, mergeVars, parseVars>>

\* Line 335 is false: lines 391-392 return all_disclosures
ReturnFetch ==
    /\ pc = "fetch" /\ ~ walking
    /\ pc' = "fetched"
    /\ last' = [op |-> "return"]
    /\ UNCHANGED <<target_months, page, consecutive_empty, retry, all_disclosures,
                   request_count, requested, yielded, last_page, failBudget, server,
                   walk_log, page_log, min_gap, periodStore, aggVars, mergeVars, parseVars>>

\* An exception outside the attempt (lines 394-396): [] is returned
UnexpectedError ==
    /\ pc = "fetch" /\ walking
    /\ failBudget > 0 /\ page <= server.fail_pages
    /\ failBudget' = failBudget - 1
    /\ all_disclosures' = <<>>
    /\ pc' = "fetched"
    /\ last' = [op |-> "error"]
    /\ UNCHANGED <<target_months, page, consecutive_empty, retry, request_count, requested,
                   yielded, last_page, server, walk_log, page_log, min_gap, periodStore,
                   aggVars, mergeVars, parseVars>>

\* Lines 460-467: the month is saved when something was fetched
SaveMonth(s3ok) ==
    /\ pc = "fetched"
    /\ LET i == Head(target_months)
           t == get_target_months[i]
           new_disclosures == all_disclosures
           saved == saves(new_disclosures) /\ s3ok
       IN  /\ periodStore' = IF saved
                              THEN put_object(periodStore, TargetKeys[i],
                                              month_data(t.year, t.month, new_disclosures))
                              ELSE periodStore
           /\ last' = [op |-> "save", key |-> TargetKeys[i], saved |-> saved]
    /\ target_months' = Tail(target_months)
    /\ pc' = IF Tail(target_months) = <<>> THEN "end" ELSE "run"
    /\ UNCHANGED <<page, consecutive_empty, retry, all_disclosures, request_count, requested,
                   yielded, last_page, failBudget, server, walk_log, page_log, min_gap,
                   aggVars, mergeVars, parseVars>>

\* Every request of SpecWalk is answered when it is first sent; the requests
\* the adapter sends again are in SpecRetry and SpecCeiling
WalkNext ==
    \/ \E marker \in Markers : StartMonth(marker)
    \/ \E page_disclosures \in PageLists : AttemptOK(page_disclosures, 1)
    \/ \E outcome \in Failures : AttemptFail(outcome, 1)
    \/ ReturnFetch
    \/ UnexpectedError
    \/ \E s3ok \in BOOLEAN : SaveMonth(s3ok)

SpecWalk == WalkInit /\ [][WalkNext]_vars

-----------------------------------------------------------------------------
(* SpecRetry: one walk against a server that keeps failing *)

\* The first target month got no answer at all (no request returned, nothing
\* was saved); the walk of the second month is about to start and the server
\* may fail on each of its first MaxFailPages pages
RetryInit ==
    /\ StoresInit /\ AggIdle /\ MergeIdle /\ ParseIdle
    /\ pc = "run" /\ target_months = <<2>>
    /\ page = 0 /\ consecutive_empty = 0 /\ retry = 0 /\ all_disclosures = <<>>
    /\ request_count = 0 /\ requested = {} /\ yielded = <<>> /\ last_page = 0
    /\ failBudget = MaxRetryFailures
    /\ server = [data_pages |-> 1, fail_pages |-> MaxFailPages]
    /\ walk_log = <<>> /\ page_log = <<>> /\ min_gap = longest_delay

RetryNext ==
    \/ StartMonth(0)
    \/ \E page_disclosures \in {<<>>, <<Row1>>}, sends \in Sends :
          AttemptOK(page_disclosures, sends)
    \/ \E outcome \in Failures, sends \in Sends : AttemptFail(outcome, sends)
    \/ ReturnFetch
    \/ UnexpectedError
    \/ \E s3ok \in BOOLEAN : SaveMonth(s3ok)

SpecRetry == RetryInit /\ [][RetryNext]_vars

-----------------------------------------------------------------------------
(* SpecCeiling: a walk that comes close to page 1000 *)

\* The walk is about to request page CeilingStart: every earlier page was
\* answered at the first attempt, and every max_consecutive_empty-th of them
\* held one record, so that the walk never saw 20 empty pages in a row
CeilingStart == max_pages - 2

WalkedLog == [p \in 1..(CeilingStart - 1) |->
                IF p % max_consecutive_empty = 0 THEN "data" ELSE "empty"]

\* A walk that has come to page CeilingStart, with the failed attempts and
\* the pages the server has left
CeilingWalk(budget, pages) ==
    /\ StoresInit /\ AggIdle /\ MergeIdle /\ ParseIdle
    /\ pc = "fetch" /\ target_months = <<2>>
    /\ page = CeilingStart
    /\ consecutive_empty = (CeilingStart - 1) % max_consecutive_empty
    /\ retry = 0
    /\ all_disclosures = [i \in 1..((CeilingStart - 1) \div max_consecutive_empty) |-> Row1]
    /\ yielded = all_disclosures
    /\ request_count = ((CeilingStart - 2) % session_reset_interval) + 1
    /\ requested = 1..(CeilingStart - 1)
    /\ last_page = 0
    /\ failBudget = budget
    /\ server = [data_pages |-> pages, fail_pages |-> pages]
    /\ walk_log = WalkedLog /\ page_log = <<"200">> /\ min_gap = min_delay(0)

CeilingInit == CeilingWalk(MaxFailedAttempts, max_pages + 1)

CeilingNext ==
    \/ \E page_disclosures \in PageLists, sends \in Sends :
          AttemptOK(page_disclosures, sends)
    \/ \E outcome \in Failures, sends \in Sends : AttemptFail(outcome, sends)
    \/ ReturnFetch
    \/ UnexpectedError

SpecCeiling == CeilingInit /\ [][CeilingNext]_vars

(***************************************************************************)
(* SpecTerminate: the walk near the ceiling against a server that can fail *)
(* or answer every page the walk asks for.  Every attempt ends (timeout=30 *)
(* of line 351, finite sleeps) and the loop goes on by itself, hence the   *)
(* weak fairness of the walk's steps.  The kinds of failed attempt differ  *)
(* in request_count and the logs only, so one kind stands for them here.   *)
(***************************************************************************)
TerminateInit ==
    CeilingWalk(MaxWalkFailures, max_pages + max_consecutive_empty + max_retries)

TerminateNext ==
    \/ \E page_disclosures \in PageLists : AttemptOK(page_disclosures, 1)
    \/ AttemptFail("404", 1)
    \/ ReturnFetch
    \/ UnexpectedError

SpecTerminate == TerminateInit /\ [][TerminateNext]_vars /\ WF_vars(TerminateNext)

-----------------------------------------------------------------------------
(* SpecParse: the parsing functions of the collector on bounded arguments *)

\* The texts of a disclosure-time cell: YY/MM/DD for every two-digit year,
\* months and days in and out of range, alone or followed by a time
TimeTexts == {<<>>, <<" ", "9", ":", "0", "5">>, <<" ", "1", "8", ":", "0", "5">>}
DateNumbers ==
    {[yy |-> y, mm |-> m, dd |-> d] : y \in 0..99, m \in 0..13, d \in {0, 1, 6, 10, 28, 31, 32}}
DateText(n, t) == Pad2(n.yy) \o <<"/">> \o Pad2(n.mm) \o <<"/">> \o Pad2(n.dd) \o t

\* The datetime attribute 2026-02-06T18:05:00+09:00
Attribute ==
    IsoDate(Today.year, 2, 6) \o <<"T", "1", "8", ":", "0", "5", ":", "0", "0">>
        \o <<"+", "0", "9", ":", "0", "0">>

\* The rows of a disclosure table: codes in and out of range, a time cell
\* with or without datetime attribute whose text shows the day of the
\* attribute, another day, a day February does not have or no date, rows
\* with five and with six cells
CodeTexts == {<<"7", "2", "0", "3">>, <<"0", "9", "9", "9">>, <<"7", "2", "0">>,
              <<"7", "2", "A", "3">>}
TimeCells ==
    {Cell(text, datetime) :
        text \in {DateText([yy |-> 26, mm |-> 2, dd |-> d], t) : d \in {6, 7, 31}, t \in TimeTexts}
                    \cup {<<>>, <<"-">>},
        datetime \in {NoText, Attribute}}
TableRows ==
    {<<Cell(code, NoText), Cell(company, NoText), Cell(<<"P">>, NoText), Cell(<<>>, NoText),
       Cell(title, NoText)>> \o tail :
        code \in CodeTexts, company \in {<<>>, <<"Toyota">>}, title \in {<<>>, Kessan, Haitou},
        tail \in {<<>>} \cup {<<c>> : c \in TimeCells}}

\* The words of the titles: every keyword of categorize_disclosure and a word
\* that is no keyword
Vocabulary ==
    {"kessan", "gyoseki", "shihanki", "uriage", "rieki", "haitou", "kabunushiyutai",
     "jikokabushiki", "jinji", "yakuin", "daihyotorishimariyaku", "baishu", "M&A",
     "shihonteikei", "gyomuteikei", "shinseihin", "shinservice", "kaihatsu", "tokkyo",
     "oshirase"}
Titles == SeqsUpTo(Vocabulary, MaxTitleWords)

\* The pages given to extract_disclosures_from_page.  The rows of a table:
\* two well-formed rows, a row whose code is out of range and a row of five
\* cells; its th cells: the columns of the disclosure table, other columns or
\* none.  A page has one table of up to MaxRows rows, or two tables of at
\* most one row each, or none.
PageRow(code, title, cells) ==
    SubSeq(<<Cell(code, NoText), Cell(<<"Toyota">>, NoText), Cell(<<"P">>, NoText),
             Cell(<<>>, NoText), Cell(title, NoText),
             Cell(DateText([yy |-> 26, mm |-> 2, dd |-> 6], <<>>), NoText)>>, 1, cells)
PageRows == {PageRow(<<"7", "2", "0", "3">>, Kessan, 6), PageRow(<<"7", "2", "0", "3">>, Haitou, 6),
             PageRow(<<"0", "9", "9", "9">>, Kessan, 6), PageRow(<<"7", "2", "0", "3">>, Kessan, 5)}
Headers == {<<"code", "kaishamei", "shijo", "johoshubetsu", "title", "kaijinichiji">>,
            <<"code", "kabuka">>, <<>>}
Tables(n) == {[header |-> h, rows |-> rs] : h \in Headers, rs \in SeqsUpTo(PageRows, n)}

\* The texts of the items: a disclosure with code, title and date, one
\* without a date, one too short, one without a code in range, one whose
\* first code is out of range, a pagination link and a header
ItemDate == DateText([yy |-> 26, mm |-> 2, dd |-> 6], <<" ", "1", "5", ":", "0", "0">>)
ItemTexts ==
    {<<"7", "2", "0", "3", " ", "kessan", "tanshin", " ">> \o ItemDate,
     <<"7", "2", "0", "3", " ", "haitou", "yosou", " ", "oshirase", "oshirase">>,
     <<"7", "2", "0", "3", " ", "kessan">>,
     <<"7", "2", "0", "3", "kessan", "tanshin", " ">> \o ItemDate,
     <<"0", "9", "9", "9", " ", "6", "7", "5", "8", " ", "kessan", " ">> \o ItemDate,
     <<"tsugihe", " ", "7", "2", "0", "3", " ">> \o ItemDate,
     <<"code", "\n", "kaishamei", "\n", "7", "2", "0", "3", " ">> \o ItemDate}
Pages ==
    {[tables |-> ts, items |-> is] :
        ts \in SeqsUpTo(Tables(MaxRows), 1) \cup {<<t, u>> : t \in Tables(1), u \in Tables(1)},
        is \in SeqsUpTo(ItemTexts, 2)}

\* The records given to calculate_importance_score: a category_detailed of
\* each tier or none, and a title of up to MaxScoreWords words (the first and
\* the last keyword of the list, a digit, a numeral that is no digit, the
\* units) after no padding or a padding of 48 or 49 characters, so that
\* titles of 50 and of 51 characters occur
ScoreWords == {"gyosekiyosoushusei", "gappei", "5", "go", "okuen", "hyakumanen", "senmanen"}
Paddings == {<<>>, <<"PHRASE", "x", "x">>, <<"PHRASE", "x", "x", "x">>}
ScoreTitles == {pad \o words : pad \in Paddings, words \in SeqsUpTo(ScoreWords, MaxScoreWords)}
DetailedCategories ==
    {"kessantanshin", "gyosekiyosoushusei", "daihyotorishimariyaku", "M&A-baishu",
     "daisanshawariatezoushi", "kessansetsumeikai", "haitoukin", "kabushikibunkatsu",
     "jikokabushikishutoku", "shinkijigyo", "gyomuteikei", "setsubitoushi",
     "kabunushiyutai", "sonota"}
ScoreRecord(title, category) ==
    IF category = "" THEN [title |-> title] ELSE [title |-> title, category_detailed |-> category]

ParseInit ==
    /\ StoresInit /\ AggIdle /\ MergeIdle /\ WalkIdle
    /\ p_op = "input" /\ p_arg = <<>> /\ p_ret = <<>>

\* date_str, time_str = self.parse_datetime_str(datetime_text, year), for a
\* text written from the numbers n and the time t
ParseDatetime ==
    /\ p_op = "input"
    /\ \E n \in DateNumbers, t \in TimeTexts :
          /\ p_arg' = [text |-> DateText(n, t), mm |-> n.mm, dd |-> n.dd]
          /\ p_ret' = parse_datetime_str(DateText(n, t))
    /\ p_op' = "parse_datetime_str"
    /\ UNCHANGED <<periodStore, last, aggVars, mergeVars, walkVars>>

\* row_data = self.parse_disclosure_row(cells, year, month)
ParseRow ==
    /\ p_op = "input"
    /\ \E cells \in TableRows :
          /\ p_arg' = cells
          /\ p_ret' = parse_disclosure_row(cells, Today.year, 2)
    /\ p_op' = "parse_disclosure_row"
    /\ UNCHANGED <<periodStore, last, aggVars, mergeVars, walkVars>>

\* category = self.categorize_disclosure(title)
Categorize ==
    /\ p_op = "input"
    /\ \E title \in Titles :
          /\ p_arg' = title
          /\ p_ret' = categorize_disclosure(title)
    /\ p_op' = "categorize_disclosure"
    /\ UNCHANGED <<periodStore, last, aggVars, mergeVars, walkVars>>

\* enhanced['importance_score'] = self.calculate_importance_score(enhanced)
Score ==
    /\ p_op = "input"
    /\ \E title \in ScoreTitles, category \in DetailedCategories \cup {""} :
          /\ p_arg' = ScoreRecord(title, category)
          /\ p_ret' = calculate_importance_score(ScoreRecord(title, category))
    /\ p_op' = "calculate_importance_score"
    /\ UNCHANGED <<periodStore, last, aggVars, mergeVars, walkVars>>

\* page_disclosures = self.extract_disclosures_from_page(soup, year, month)
ExtractPage ==
    /\ p_op = "input"
    /\ \E soup \in Pages :
          /\ p_arg' = soup
          /\ p_ret' = extract_disclosures_from_page(soup, Today.year, 2)
    /\ p_op' = "extract_disclosures_from_page"
    /\ UNCHANGED <<periodStore, last, aggVars, mergeVars, walkVars>>

\* The records of a monthly document: two the collector wrote, one whose date
\* is written yy/mm/dd, which normalize_date returns as it is, and one that is
\* a pagination fragment
RowShortYear == RawRecord("7203", "Toyota", Kessan, <<"2", "6", "/", "0", "2", "/", "0", "6">>)
RowFragment == RawRecord("7203", "Toyota", <<"tsugihe">>, IsoDate(Today.year, 2, 6))
FileRows == {Row1, Row3, RowShortYear, RowFragment}

\* Lines 185-233 of load_all_monthly_data for one monthly document: the
\* records appended to stock_data
LoadFile ==
    /\ p_op = "input"
    /\ \E disclosures \in SeqsUpTo(FileRows, MaxFileRecords) :
          /\ p_arg' = disclosures
          /\ p_ret' = file_records(disclosures)
    /\ p_op' = "load_file"
    /\ UNCHANGED <<periodStore, last, aggVars, mergeVars, walkVars>>

ParseNext == ParseDatetime \/ ParseRow \/ Categorize \/ Score \/ ExtractPage \/ LoadFile

SpecParse == ParseInit /\ [][ParseNext]_vars

-----------------------------------------------------------------------------
(* SpecPrices: JPXDailyUpdater.merge_and_save on bounded arguments *)

\* A price table (the CSV of a stock, a DataFrame): the row of each of its
\* dates; a row is "stored" when it was in the CSV and "fetched" when
\* get_yesterday_data returned it
Days == 1..MaxDay
PriceTables(row) == {[rows |-> [d \in ds |-> row]] : ds \in SUBSET Days}

\* What get_object and read_csv of load_existing_data can end in: the table
\* is returned, the object does not exist, or another exception (a timeout,
\* a throttled request, a CSV that read_csv cannot parse)
Reads(csv) == IF csv = NoDoc THEN {"notfound", "error"} ELSE {"ok", "error"}

\* JPXDailyUpdater.load_existing_data: None for every exception
load_existing_data(csv, read) == IF read = "ok" THEN csv ELSE NoRecord

\* JPXDailyUpdater.merge_and_save for the stored CSV csv: what it returns and
\* the CSV stored afterwards
merge_and_save(csv, read, new_data, putOK) ==
    IF new_data = NoRecord \/ DOMAIN new_data.rows = {}
    THEN [returned |-> FALSE, wrote |-> FALSE, csv |-> csv]
    ELSE LET existing_data == load_existing_data(csv, read)
             final_data ==
                 IF existing_data # NoRecord
                 THEN [rows |-> [d \in DOMAIN existing_data.rows \cup DOMAIN new_data.rows |->
                                    IF d \in DOMAIN new_data.rows THEN new_data.rows[d]
                                    ELSE existing_data.rows[d]]]
                 ELSE new_data
         IN  IF putOK THEN [returned |-> TRUE, wrote |-> TRUE, csv |-> final_data]
             ELSE [returned |-> FALSE, wrote |-> FALSE, csv |-> csv]

PricesInit ==
    /\ StoresInit /\ AggIdle /\ MergeIdle /\ WalkIdle
    /\ p_op = "input" /\ p_arg = <<>> /\ p_ret = <<>>

\* self.merge_and_save(symbol, new_data), line 253, and the same call with
\* None or an empty table
MergeAndSave ==
    /\ p_op = "input"
    /\ \E csv \in {NoDoc} \cup PriceTables("stored"),
          new_data \in {NoRecord} \cup PriceTables("fetched"), putOK \in BOOLEAN :
          \E read \in Reads(csv) :
             /\ p_arg' = [csv |-> csv, read |-> read, new_data |-> new_data]
             /\ p_ret' = merge_and_save(csv, read, new_data, putOK)
    /\ p_op' = "merge_and_save"
    /\ UNCHANGED <<periodStore, last, aggVars, mergeVars, walkVars>>

PricesNext == MergeAndSave

SpecPrices == PricesInit /\ [][PricesNext]_vars

-----------------------------------------------------------------------------
(* Properties *)

\* The identity keys an EntityStore holds
StoreKeys(doc) == IF doc = NoDoc THEN {} ELSE KeySet(doc.disclosures)

\* No EntityStore loses an identity key in the step
KeysKept == \A c \in Codes : StoreKeys(entityStore[c]) \subseteq StoreKeys(entityStore'[c])

Max(a, b) == IF a >= b THEN a ELSE b

\* C1: a step of an incremental-mode run whose read of the existing
\* EntityStore succeeds (found or not found) leaves every EntityStore with a
\* superset of the identity keys it held before; load and finish steps do not
\* write EntityStores, so the same holds of the whole run.
C1_IncrementalRunKeepsKeys ==
    [][(mode = "incremental" /\ ~ (last'.op = "process" /\ last'.read = "error")) => KeysKept]_vars

\* C1 witness: an incremental step has merged new keys into an existing store
C1_Witness ==
    /\ last.op = "process" /\ last.mode = "incremental"
    /\ last.read = "ok" /\ last.write = "ok"
    /\ Cardinality(StoreKeys(entityStore[last.stock_code])) >= 2

\* C2 (as claimed): when the read of the existing EntityStore fails in
\* incremental mode, the store still holds every identity key it held before.
C2_ReadErrorKeepsKeys ==
    [][(last'.op = "process" /\ last'.mode = "incremental" /\ last'.read = "error")
          => KeysKept]_vars

\* C3 (as claimed): a step of a full-mode run leaves every EntityStore with a
\* superset of the identity keys it held before.
C3_FullRunNeverShrinks ==
    [][(last'.op = "process" /\ last'.mode = "full") => KeysKept]_vars

\* C4 (as claimed): an incremental run that follows a completed, error-free
\* incremental run over unchanged PeriodStores writes no EntityStore (and the
\* Index is not written in incremental mode).
C4_SecondRunWritesNothing ==
    (mode = "incremental" /\ prevClean) => stats.created_files + stats.updated_files = 0

\* C4, restricted to second runs whose own reads succeed
C4_CleanSecondRunWritesNothing ==
    (mode = "incremental" /\ prevClean /\ runClean)
        => stats.created_files + stats.updated_files = 0

\* C5 (as claimed): the merged list holds every key of both arguments and is
\* at least as long as the longer argument.
C5_MergeAtLeastMax ==
    m_pc = "merged" =>
        /\ KeySet(m_existing) \subseteq KeySet(m_merged)
        /\ KeySet(m_new) \subseteq KeySet(m_merged)
        /\ Len(m_merged) >= Max(Len(m_existing), Len(m_new))

\* C5 (amended): the merged list holds every key of both arguments, is at
\* least as long as the existing list and has at least as many records as the
\* new list has distinct keys.
C5_MergeIsUnion ==
    m_pc = "merged" =>
        /\ KeySet(m_existing) \subseteq KeySet(m_merged)
        /\ KeySet(m_new) \subseteq KeySet(m_merged)
        /\ Len(m_merged) >= Max(Len(m_existing), Cardinality(KeySet(m_new)))

\* C5 witness: a merge of a non-empty existing list with a new list that
\* repeats a key
C5_Witness ==
    /\ m_pc = "merged" /\ m_existing # <<>>
    /\ Len(m_new) > Cardinality(KeySet(m_new))
    /\ ~ (KeySet(m_new) \subseteq KeySet(m_existing))

\* C6: the merged list has exactly n + k records, n the length of the
\* existing list and k the number of distinct keys of the new list that the
\* existing list does not hold.
C6_MergeCount ==
    m_pc = "merged" =>
        Len(m_merged) = Len(m_existing) + Cardinality(KeySet(m_new) \ KeySet(m_existing))

\* C6 witness: 10 existing records and new ones, 3 with new keys and 2 with
\* existing keys, have been merged into 13
C6_Witness ==
    /\ m_pc = "merged" /\ Len(m_existing) = 10 /\ Len(m_new) = 5
    /\ Cardinality(KeySet(m_new) \ KeySet(m_existing)) = 3
    /\ Len(m_merged) = 13

\* C7: deduplicating X ++ X gives the same records in the same order as
\* deduplicating X.
C7_DedupeTwice == m_pc = "deduped" => m_twice = m_merged

\* C7 witness: a list that itself repeats a key has been deduplicated
C7_Witness ==
    /\ m_pc = "deduped" /\ Len(m_merged) >= 2 /\ Len(m_new) > Len(m_merged)

\* The records of a list whose identity key an earlier record of the list has
Repeats(disclosures) ==
    {i \in 1..Len(disclosures) :
        \E j \in 1..(i - 1) :
            create_disclosure_key(disclosures[j]) = create_disclosure_key(disclosures[i])}

\* C8 (as claimed): when the pages of a month yielded n records of which d
\* repeat the identity key of an earlier one, the PeriodStore that was saved
\* has total_disclosures = n - d.
C8_PeriodStoreDeduplicated ==
    (last.op = "save" /\ last.saved) =>
        periodStore[last.key].total_disclosures = Len(yielded) - Cardinality(Repeats(yielded))

\* C9: every PeriodStore document has total_disclosures equal to the length
\* of its disclosures list, and its category counts and its company counts
\* each sum to that number.
C9_PeriodStoreCounts ==
    \A k \in PeriodKeys :
        periodStore[k] # NoDoc =>
            /\ periodStore[k].total_disclosures = Len(periodStore[k].disclosures)
            /\ HistogramTotal(periodStore[k].categories) = periodStore[k].total_disclosures
            /\ HistogramTotal(periodStore[k].companies) = periodStore[k].total_disclosures

\* C9 witness: a walk has saved a document whose list repeats a record and
\* has two categories
C9_Witness ==
    /\ last.op = "save" /\ last.saved
    /\ Repeats(periodStore[last.key].disclosures) # {}
    /\ Cardinality(DOMAIN periodStore[last.key].categories) >= 2

\* C10 (as claimed): when page 1 shows a last-page marker L, a walk that
\* leaves its loop without an error has requested every page 1..L, empty
\* pages before L notwithstanding.
C10_WalkReachesLastPage ==
    (last.op = "return" /\ last_page > 0) => (1..last_page) \subseteq requested

\* C11 (as claimed): when page 1 shows a last-page marker L, no page beyond L
\* is requested in the walk.
C11_MarkerIsCeiling ==
    last_page > 0 => \A p \in requested : p <= last_page

\* C12 (as claimed): once 5 consecutive pages have failed, each after its
\* last retry, no further page of the month is requested.
C12_AbortAfterFiveFailures ==
    \A p \in requested :
        ~ (p > 5 /\ \A q \in (p - 5)..(p - 1) : walk_log[q] = "failed")

\* C13 (as claimed): however the walk ends, fetch_month_disclosures returns
\* every record the pages of the walk yielded.
C13_EarlyEndKeepsRecords ==
    pc = "fetched" => all_disclosures = yielded

\* The number of pages at the end of the walk so far that yielded no record
RECURSIVE EmptyRun(_)
EmptyRun(log) ==
    IF log = <<>> \/ log[Len(log)] = "data" THEN 0
    ELSE 1 + EmptyRun(SubSeq(log, 1, Len(log) - 1))

\* C14: in a walk without last-page marker the consecutive-empty count is the
\* number of pages in a row, up to the last finished one, that yielded no
\* record (0 after a page with a record); the loop condition ends the walk
\* only when that number is 20, and when it is 20 no further page is
\* requested.
C14_EmptyPagesEndWalk ==
    last_page = 0 =>
        /\ consecutive_empty = EmptyRun(walk_log)
        /\ last.op = "return" => EmptyRun(walk_log) = max_consecutive_empty
        /\ EmptyRun(walk_log) >= max_consecutive_empty => page \notin requested

\* C14 witness: a walk without marker in which a page with records followed
\* an empty page has ended after 20 empty pages
C14_Witness ==
    /\ last.op = "return" /\ last_page = 0
    /\ \E i, j \in 1..Len(walk_log) : i < j /\ walk_log[i] = "empty" /\ walk_log[j] = "data"

\* C15 (as claimed): no page number greater than 1000 is requested in a walk.
C15_NoPageBeyondCeiling ==
    \A p \in requested : p <= max_pages

\* C16: a page gets at most max_retries attempts, none after a status 200,
\* and is reported failed only after max_retries attempts that all ended in
\* another status or in a network error.
C16_AtMostMaxRetries ==
    /\ Len(page_log) <= max_retries
    /\ \A i \in 1..(Len(page_log) - 1) : page_log[i] # "200"
    /\ last.op = "page_failed" =>
          /\ Len(page_log) = max_retries
          /\ \A i \in 1..Len(page_log) : page_log[i] \in Failures

\* C16 witness: a page has been reported failed after a 429, another status
\* and a network error, in a walk in which an earlier page was answered
C16_Witness ==
    /\ last.op = "page_failed"
    /\ {page_log[i] : i \in 1..Len(page_log)} = Failures
    /\ \E q \in 1..Len(walk_log) : walk_log[q] # "failed"

\* C17 (as claimed): a page whose attempts were all answered with status 429
\* is not reported as a failed page.
C17_RateLimitNeverFailsPage ==
    last.op = "page_failed" => \E i \in 1..Len(page_log) : page_log[i] # "429"

\* C18: for a text YY/MM/DD, alone or followed by a time, with month 01..12
\* and day 01..31, parse_datetime_str returns the date 20YY-MM-DD, written
\* with the digits of the text.
C18_TwoDigitYearDate ==
    (p_op = "parse_datetime_str" /\ p_arg.mm \in 1..12 /\ p_arg.dd \in 1..31) =>
        p_ret.date = <<"2", "0">> \o SubSeq(p_arg.text, 1, 2) \o <<"-">>
                        \o SubSeq(p_arg.text, 4, 5) \o <<"-">> \o SubSeq(p_arg.text, 7, 8)

\* C18 witness: 26/02/06 18:05 has been parsed to 2026-02-06
C18_Witness ==
    /\ p_op = "parse_datetime_str"
    /\ Str(p_arg.text) = "26/02/06 18:05"
    /\ Str(p_ret.date) = "2026-02-06" /\ Str(p_ret.time) = "18:05"

\* C19 (as claimed): when the time cell of a row carries a datetime
\* attribute and a visible date, the date of the record is the date part of
\* the attribute.
C19_DateFromAttribute ==
    (/\ p_op = "parse_disclosure_row" /\ p_ret # NoRecord
     /\ p_arg[6].datetime # NoText /\ DateAt(p_arg[6].text, 1)) =>
        p_ret.date = SubSeq(p_arg[6].datetime, 1, 10)

\* The rules of categorize_disclosure in their order
CategoryRules ==
    <<[label |-> "kessan-gyoseki",
       keywords |-> {"kessan", "gyoseki", "shihanki", "uriage", "rieki"}],
      [label |-> "haitou-kabunushikangen",
       keywords |-> {"haitou", "kabunushiyutai", "jikokabushiki"}],
      [label |-> "jinji-soshiki",
       keywords |-> {"jinji", "yakuin", "daihyotorishimariyaku"}],
      [label |-> "M&A-teikei",
       keywords |-> {"baishu", "M&A", "shihonteikei", "gyomuteikei"}],
      [label |-> "jigyo-seihin",
       keywords |-> {"shinseihin", "shinservice", "kaihatsu", "tokkyo"}]>>

\* C20: categorize_disclosure returns the label of the first rule that has a
\* keyword in the title, so the earnings label for every title with an
\* earnings keyword, and the label for "other" when no rule has one.
C20_FirstRuleWins ==
    p_op = "categorize_disclosure" =>
        LET hits == {i \in 1..Len(CategoryRules) : Words(p_arg) \cap CategoryRules[i].keywords # {}}
        IN  /\ hits # {} => \E i \in hits : /\ \A j \in hits : i <= j
                                            /\ p_ret = CategoryRules[i].label
            /\ hits = {} => p_ret = "sonota"
            /\ 1 \in hits => p_ret = "kessan-gyoseki"

\* C20 witness: a title with a dividend keyword followed by an earnings
\* keyword has been categorized as earnings
C20_Witness ==
    /\ p_op = "categorize_disclosure"
    /\ p_arg = <<"haitou", "kessan">>
    /\ p_ret = "kessan-gyoseki"


\* C21: importance_score is the tier base (0.5 for a high-tier category, 0.3
\* for a medium-tier one, 0.1 otherwise) plus 0.2 if the title has a
\* high-impact keyword, plus 0.1 if it has an amount, plus 0.1 if it is
\* longer than 50 characters, capped at 1.0 and so within [0, 1] (in tenths)
C21_ImportanceScore ==
    p_op = "calculate_importance_score" =>
        LET title == Get(p_arg, "title", <<>>)
            category == Get(p_arg, "category_detailed", "")
            base == CASE category \in {"kessantanshin", "gyosekiyosoushusei",
                                       "daihyotorishimariyaku", "M&A-baishu",
                                       "daisanshawariatezoushi"} -> 5
                      [] category \in {"kessansetsumeikai", "haitoukin", "kabushikibunkatsu",
                                       "jikokabushikishutoku", "shinkijigyo", "gyomuteikei",
                                       "setsubitoushi"} -> 3
                      [] OTHER -> 1
            keyword == Words(title) \cap {"gyosekiyosoushusei", "akaji", "kurojitenkan",
                                          "zouhai", "genpai", "muhai", "baishu", "gappei"} # {}
            amount == \E i \in 1..(Len(title) - 1) :
                         /\ title[i] \in Digits
                         /\ title[i + 1] \in {"okuen", "hyakumanen", "senmanen"}
            sum == base + (IF keyword THEN 2 ELSE 0) + (IF amount THEN 1 ELSE 0)
                   + (IF TitleLen(title) > 50 THEN 1 ELSE 0)
        IN  /\ p_ret = IF sum > 10 THEN 10 ELSE sum
            /\ p_ret \in 0..10

\* A high-tier record whose title has a keyword, an amount and 53 characters
\* scores 0.9
C21_Witness ==
    /\ p_op = "calculate_importance_score"
    /\ p_arg = [title |-> <<"PHRASE", "x", "x", "gappei", "5", "okuen">>,
                category_detailed |-> "kessantanshin"]
    /\ p_ret = 9

\* The days of month m of year y
DaysInMonth(y, m) ==
    IF m \in {4, 6, 9, 11} THEN 30
    ELSE IF m # 2 THEN 31
    ELSE IF (y % 4 = 0 /\ y % 100 # 0) \/ y % 400 = 0 THEN 29
    ELSE 28

\* C22: every record of the page parser has a valid calendar date: a month
\* in 1..12 and a day that exists in that month of that year
C22_ValidCalendarDate ==
    (p_op = "parse_disclosure_row" /\ p_ret # NoRecord) =>
        LET y == IntOf(SubSeq(p_ret.date, 1, 4))
            m == IntOf(SubSeq(p_ret.date, 6, 7))
            d == IntOf(SubSeq(p_ret.date, 9, 10))
        IN  /\ IsIsoDate(p_ret.date)
            /\ m \in 1..12
            /\ d \in 1..DaysInMonth(y, m)

\* The td rows of the disclosure tables of a page, in page order
RECURSIVE DisclosureRows(_)
DisclosureRows(tables) ==
    IF tables = <<>> THEN <<>>
    ELSE (IF {"code", "title"} \subseteq Words(Head(tables).header) THEN Head(tables).rows
          ELSE <<>>)
         \o DisclosureRows(Tail(tables))

\* A row of six cells or more whose code is four digits in 1000..9999
WellFormed(cells) ==
    /\ Len(cells) >= 6
    /\ Len(cells[1].text) = 4 /\ AllDigits(cells[1].text)
    /\ IntOf(cells[1].text) \in 1000..9999

\* The records of the well-formed rows of the disclosure tables of a page of
\* the model, whose rows all show a company and the date 26/02/06
TableRecords(soup) ==
    LET wf == SelectSeq(DisclosureRows(soup.tables), WellFormed)
    IN  [i \in 1..Len(wf) |->
            RawRecord(Str(wf[i][1].text), Str(wf[i][2].text), wf[i][5].text,
                      IsoDate(Today.year, 2, 6))]

\* C27: the free-text fallback runs only when the page has no disclosure
\* table: when it has one, every record returned is one of its rows
C27_FallbackOnlyWithoutTable ==
    (/\ p_op = "extract_disclosures_from_page"
     /\ \E i \in 1..Len(p_arg.tables) : {"code", "title"} \subseteq Words(p_arg.tables[i].header))
    => p_ret = TableRecords(p_arg)

\* C28: a malformed row is skipped and every well-formed row of the page is
\* still returned, in page order
C28_MalformedRowSkipped ==
    (/\ p_op = "extract_disclosures_from_page"
     /\ \E i \in 1..Len(DisclosureRows(p_arg.tables)) :
            WellFormed(DisclosureRows(p_arg.tables)[i]))
    => p_ret = TableRecords(p_arg)

\* A well-formed row, a row with a code out of range and another well-formed
\* row: the first and the third are returned
C28_Witness ==
    /\ p_op = "extract_disclosures_from_page"
    /\ Len(p_arg.tables) = 1 /\ Len(p_arg.tables[1].rows) = 3
    /\ WellFormed(p_arg.tables[1].rows[1])
    /\ ~ WellFormed(p_arg.tables[1].rows[2])
    /\ WellFormed(p_arg.tables[1].rows[3])
    /\ p_arg.tables[1].rows[1] # p_arg.tables[1].rows[3]
    /\ Len(p_ret) = 2

\* C23: a page whose fetch failed after all its retries is not counted as an
\* empty page: the step that reports the page as failed leaves
\* consecutive_empty as it was
C23_FailedPageNotCountedEmpty ==
    [][last'.op = "page_failed" => consecutive_empty' = consecutive_empty]_vars

\* C24: no session issues more than session_reset_interval requests:
\* request_count, the number of answered requests of the current session,
\* never exceeds it
C24_SessionRequestBudget == request_count <= session_reset_interval

\* The pages requested so far are 1..page or 1..(page - 1): none was skipped
SequentialPages ==
    pc = "fetch" => /\ requested \subseteq 1..page
                    /\ 1..(page - 1) \subseteq requested

\* C25: pages are requested in ascending order from page 1 with none skipped,
\* and every HTTP request of the walk is preceded by a sleep
C25_PacedSequentialRequests == SequentialPages /\ min_gap > 0

\* C26: every walk terminates after a bounded number of page requests: no
\* page beyond max_pages + max_consecutive_empty - 1 is requested, and
\* fetch_month_disclosures returns whatever the pages answer
C26_WalkTerminates ==
    /\ [](requested \subseteq 1..(max_pages + max_consecutive_empty - 1))
    /\ <>(pc = "fetched")

\* The walk has returned after the last page it can ever request
C26_Witness ==
    pc = "fetched" /\ (max_pages + max_consecutive_empty - 1) \in requested

\* A step of process_stocks_in_batches for the stock code at the head of the
\* list
ProcessStep == last'.op = "process" /\ stock_codes # <<>> /\ stock_codes' = Tail(stock_codes)

\* C29: in incremental mode, for an entity that has an EntityStore, the
\* store is written exactly when the new records have an identity key the
\* store does not have; otherwise nothing is saved and the stored document
\* stays as it is
C29_WriteIffNewKey ==
    [][(ProcessStep /\ mode = "incremental" /\ entityStore[Head(stock_codes)] # NoDoc)
          => LET stock_code == Head(stock_codes)
                 fresh == KeySet(stock_data[stock_code]) \ StoreKeys(entityStore[stock_code])
             IN  /\ last'.write # "none" <=> fresh # {}
                 /\ last'.write = "none" => entityStore' = entityStore]_vars

\* The number of times r occurs in the list
Count(disclosures, r) == Cardinality({i \in 1..Len(disclosures) : disclosures[i] = r})

\* The records of the stored PeriodStores, and the stock codes of the
\* accepted ones
StoredRecords ==
    UNION {{periodStore[k].disclosures[i] : i \in 1..Len(periodStore[k].disclosures)} :
              k \in {j \in PeriodKeys : periodStore[j] # NoDoc}}
AcceptedCodes == {d.stock_code : d \in {e \in StoredRecords : accepted(e)}}

\* C30: a full-mode run visits every stock code that has an accepted record
\* in a loaded PeriodStore exactly once; the visit reads no existing store,
\* always saves, and the document saved holds exactly the records grouped for
\* the code in this run
C30_FullRunWritesEveryEntity ==
    [][/\ (mode = "idle" /\ mode' = "full") =>
             /\ {stock_codes'[i] : i \in 1..Len(stock_codes')} = DOMAIN stock_data'
             /\ Len(stock_codes') = Cardinality(DOMAIN stock_data')
             /\ stats'.errors = 0 => DOMAIN stock_data' = AcceptedCodes
       /\ (ProcessStep /\ mode = "full") =>
             LET stock_code == Head(stock_codes)
             IN  /\ last'.stock_code = stock_code
                 /\ last'.read = "none" /\ last'.write # "none"
                 /\ last'.write = "ok" =>
                        /\ Len(entityStore'[stock_code].disclosures) = Len(stock_data[stock_code])
                        /\ \A i \in 1..Len(stock_data[stock_code]) :
                               Count(entityStore'[stock_code].disclosures, stock_data[stock_code][i])
                                   = Count(stock_data[stock_code], stock_data[stock_code][i])]_vars

\* A full-mode step has just written a store of two records or more
C30_Witness ==
    /\ last.op = "process" /\ last.mode = "full" /\ last.write = "ok"
    /\ Len(entityStore[last.stock_code].disclosures) >= 2

\* C31: every stored stock document carries a summary of its whole record
\* list: total_disclosures is the number of stored records, the counts of
\* category_distribution add up to it, and the tiers high (score >= 0.7),
\* medium (0.4 <= score < 0.7) and low (score < 0.4) hold the records of
\* their score range and add up to it.
TierCount(disclosures, lo, hi) ==
    Cardinality({i \in 1..Len(disclosures) :
                    LET score == Get(disclosures[i], "importance_score", 0)
                    IN  lo <= score /\ score < hi})
C31_SummaryOfAllRecords ==
    \A c \in Codes :
        entityStore[c] # NoDoc =>
            LET summary == entityStore[c].summary
                disclosures == entityStore[c].disclosures
                tiers == summary.importance_distribution
            IN  /\ summary # <<>>
                /\ summary.total_disclosures = Len(disclosures)
                /\ HistogramTotal(summary.category_distribution) = Len(disclosures)
                /\ tiers.high = TierCount(disclosures, 7, 11)
                /\ tiers.medium = TierCount(disclosures, 4, 7)
                /\ tiers.low = TierCount(disclosures, 0, 4)
                /\ tiers.high + tiers.medium + tiers.low = Len(disclosures)
C31_Witness ==
    /\ entityStore["7203"] # NoDoc
    /\ entityStore["7203"].summary.importance_distribution.medium >= 1
    /\ entityStore["7203"].summary.importance_distribution.low >= 1
    /\ entityStore["6758"] # NoDoc
    /\ entityStore["6758"].summary.importance_distribution.high = 1

\* C32: an iteration of the loop over the stock codes changes the stored
\* document of no other stock and takes a code that is not among the codes
\* still to come; when its put fails, no stored document changes, the error
\* is counted once, and the run goes on with the next code.
C32_FailedWriteCountedRunContinues ==
    [][ProcessStep =>
          LET stock_code == Head(stock_codes)
          IN  /\ \A c \in Codes \ {stock_code} : entityStore'[c] = entityStore[c]
              /\ \A i \in 1..Len(stock_codes') : stock_codes'[i] # stock_code
              /\ last'.stock_code = stock_code
              /\ last'.write = "fail" =>
                    /\ entityStore' = entityStore
                    /\ stats'.errors = stats.errors + 1
                    /\ mode' = mode /\ stock_data' = stock_data]_vars
C32_Witness ==
    /\ last.op = "process" /\ last.write = "fail"
    /\ stats.errors >= 1
    /\ mode # "idle" /\ stock_codes # <<>>
    /\ \E c \in Codes \ {last.stock_code} : entityStore[c] # NoDoc

\* C33: when an incremental run over the same PeriodStores has visited every
\* stock code, after any number of interrupted runs that stored some of the
\* documents, every EntityStore has the identity keys and the number of
\* records one uninterrupted run from the starting stores leaves behind.
RecordCount(doc) == IF doc = NoDoc THEN 0 ELSE Len(doc.disclosures)
Changed == {c \in Codes : entityStore[c] # run_start[c]}
C33_ResumedRunEqualsSingleRun ==
    (mode = "incremental" /\ stock_codes = <<>>) =>
        \A c \in Codes :
            /\ StoreKeys(entityStore[c]) = StoreKeys(run_result(run_start, stock_data)[c])
            /\ RecordCount(entityStore[c]) = RecordCount(run_result(run_start, stock_data)[c])
C33_Witness ==
    /\ mode = "incremental" /\ stock_codes = <<>>
    /\ Cardinality(Changed) = 2
    /\ stats.created_files + stats.updated_files = 1

\* C34: when a run, full or incremental, ends after its last iteration stored
\* the document of a stock, the index has an entry for that stock whose
\* total_disclosures is the number of records of the stored document.
RunEnds == mode # "idle" /\ stock_codes = <<>> /\ mode' = "idle"
C34_IndexAgreesWithWrittenStores ==
    [][(RunEnds /\ last.op = "process" /\ last.write = "ok") =>
          /\ index' # NoDoc
          /\ last.stock_code \in DOMAIN index'.stocks
          /\ index'.stocks[last.stock_code].total_disclosures
                = Len(entityStore'[last.stock_code].disclosures)]_vars

\* C35: when fetch_month_disclosures returned at least one record and the
\* put succeeded, the list of the month's PeriodStore is the list returned
\* and the document is the one made of that list alone.
C35_PeriodStoreReplaced ==
    (last.op = "save" /\ all_disclosures # <<>> /\ last.saved) =>
        /\ periodStore[last.key].disclosures = all_disclosures
        /\ periodStore[last.key].total_disclosures = Len(all_disclosures)
C35_Witness ==
    /\ last.op = "save" /\ last.saved
    /\ last.key = TargetKeys[1]
    /\ periodStore[last.key].disclosures = <<Row1, Row3>>

\* C36: when fetch_month_disclosures returned no record, run_daily_collection
\* puts nothing, every PeriodStore stays as it is, and the run turns to the
\* next target month.
C36_NoRecordsNoWrite ==
    [][(pc = "fetched" /\ all_disclosures = <<>>) =>
          /\ periodStore' = periodStore
          /\ target_months' = Tail(target_months)
          /\ pc' = (IF Tail(target_months) = <<>> THEN "end" ELSE "run")]_vars
C36_Witness ==
    /\ last.op = "save" /\ ~ last.saved /\ all_disclosures = <<>>
    /\ last.key = TargetKeys[1]
    /\ periodStore[last.key] = month_data(get_target_months[1].year,
                                         get_target_months[1].month, <<Row4>>)
    /\ pc = "run" /\ target_months # <<>>

\* C37: no stored stock document holds two records with the same identity
\* key, whether a run created it or grew it by a merge.
C37_EntityStoreKeysUnique ==
    \A c \in Codes :
        entityStore[c] # NoDoc => Repeats(entityStore[c].disclosures) = {}

\* C38: the list merge_disclosures returns begins with the existing records,
\* each as it was and in the order they had, and goes on with the new records
\* whose key neither an existing record nor an earlier new record has, in the
\* order of new; every other new record is left out.
FirstSeen(existing, new) ==
    {i \in 1..Len(new) :
        /\ create_disclosure_key(new[i]) \notin KeySet(existing)
        /\ i \notin Repeats(new)}
Nth(I, k) == CHOOSE i \in I : Cardinality({j \in I : j < i}) = k - 1
C38_MergeKeepsExistingInOrder ==
    m_pc = "merged" =>
        LET I == FirstSeen(m_existing, m_new)
            n == Len(m_existing)
        IN  /\ Len(m_merged) = n + Cardinality(I)
            /\ SubSeq(m_merged, 1, n) = m_existing
            /\ \A k \in 1..Cardinality(I) : m_merged[n + k] = m_new[Nth(I, k)]
C38_Witness ==
    /\ m_pc = "merged"
    /\ Len(m_existing) >= 2 /\ Repeats(m_existing) # {}
    /\ Len(m_new) = 3 /\ Repeats(m_new) # {}
    /\ \E i \in 1..Len(m_new) : create_disclosure_key(m_new[i]) \in KeySet(m_existing)
    /\ Cardinality(FirstSeen(m_existing, m_new)) = 1

\* C39 (as claimed): when the records of a monthly document are grouped, a
\* record that cannot be enhanced is the only one left out: every accepted
\* record of the document that can be enhanced is among the grouped records.
C39_BadRecordAffectsOnlyItself ==
    p_op = "load_file" =>
        \A i \in 1..Len(p_arg) :
            (accepted(p_arg[i]) /\ ~ enhance_raises(p_arg[i])) =>
                \E j \in 1..Len(p_ret) : p_ret[j] = enhance_disclosure_data(p_arg[i])

\* C40 (as claimed): after a call of merge_and_save that wrote the CSV, the
\* CSV has a row for every date it had a row for before the call, whatever
\* the read of the existing CSV ended in.
C40_PriceHistoryKept ==
    (p_op = "merge_and_save" /\ p_ret.wrote /\ p_arg.csv # NoDoc) =>
        DOMAIN p_arg.csv.rows \subseteq DOMAIN p_ret.csv.rows

============================================================================
